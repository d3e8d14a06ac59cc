-------------------------------- MODULE Expand --------------------------------
(***************************************************************************)
(* service.expand_rows as the executor's reads use it, with parse_expand,  *)
(* available_expands and validate_relationships.                           *)
(*                                                                         *)
(* A read lists the rows of one dataset and inlines related rows under the *)
(* names asked for.  It builds an index of the related dataset for each    *)
(* name, then attaches a row or a list of rows to each row, asking for the *)
(* relationship again each time.  Every SELECT that can see a change is a  *)
(* step (rows and the immutable relationship are read in one), and other   *)
(* requests edit rows and delete relationships and datasets in between.    *)
(***************************************************************************)
EXTENDS Integers, Sequences, FiniteSetsExt

CONSTANTS
  Datasets, Fields, Names,
  Null, NoField,   (* JSON null, and a field that a row does not have      *)
  Values,          (* what else a field may hold                           *)
  Str(_),          (* str(), which joins 1 with "1"                        *)
  NoName,          (* no inverse_expand_name                               *)
  RelSets,         (* the relationships to try: sequences ordered by name  *)
  RowSets,         (* the contents to try: [Datasets -> Seq(Row)]          *)
  Requests,        (* the reads to try: [base, names]                      *)
  MaxNames,        (* 5, in parse_expand                                   *)
  MaxChanges       (* bound: changes by other requests                     *)

Row == [Fields -> Values \cup {Null, NoField}]

Rel == [src : Datasets, srcField : Fields, tgt : Datasets, tgtField : Fields,
        expand : Names, inverse : Names \cup {NoName}]

ExpandAssumption ==
  /\ \A rs \in RelSets : rs \in Seq(Rel)
  /\ \A f \in RowSets : f \in [Datasets -> Seq(Row)]
  /\ \A q \in Requests : q.base \in Datasets /\ q.names \in Seq(Names)
  /\ Null \notin Row

VARIABLES
  rels,     (* the relationships of the server, in the order of their names *)
  gone,     (* indices of those that were deleted                          *)
  rows,     (* rows[d]: the rows of d, in the order of their ids           *)
  ask,      (* the request                                                 *)
  step,     (* "start", "index", "attach", "done" or "refused"             *)
  given,    (* the rows that are expanded                                  *)
  avail,    (* avail_by_name                                               *)
  forward,  (* forward_cache: dataset -> index                             *)
  inverse,  (* inverse_cache                                               *)
  todo,     (* names left to index                                         *)
  out,      (* out[i]: what row i has got so far                           *)
  seen,     (* history: seen[d], the rows d has had since the start        *)
  changes   (* changes by others so far                                    *)

vars == <<rels, gone, rows, ask, step, given, avail, forward, inverse, todo, out, seen, changes>>

request == <<ask, step, given, avail, forward, inverse, todo, out>>

Empty == [x \in {} |-> <<>>]

RowsIn(seq) == {seq[i] : i \in DOMAIN seq}

(* The entries of seq at the positions in I, in their order.               *)
Rank(I, i) == Cardinality({j \in I : j < i})

Entries(seq, I) == [k \in 1 .. Cardinality(I) |-> seq[CHOOSE i \in I : Rank(I, i) = k - 1]]

With(f, x, y) == [z \in DOMAIN f \cup {x} |-> IF z = x THEN y ELSE f[z]]

Live == DOMAIN rels \ gone

Init ==
  /\ rels \in RelSets /\ rows \in RowSets /\ ask \in Requests
  /\ gone = {} /\ step = "start" /\ given = <<>> /\ todo = <<>> /\ out = <<>>
  /\ avail = Empty /\ forward = Empty /\ inverse = Empty
  /\ seen = [d \in Datasets |-> RowsIn(rows[d])]
  /\ changes = 0

-------------------------------------------------------------------------------
(* What a request sees. *)

(* available_expands: the names of dataset d, a later one taking the place *)
(* of an earlier one when avail_by_name is built.                          *)
Offers(d, n) ==
  {[rel |-> i, dir |-> "forward", of |-> rels[i].tgt] :
     i \in {j \in Live : rels[j].src = d /\ rels[j].expand = n}} \cup
  {[rel |-> i, dir |-> "inverse", of |-> rels[i].src] :
     i \in {j \in Live : rels[j].tgt = d /\ rels[j].inverse = n}}

LastOffer(S) ==
  CHOOSE o \in S : \A p \in S : p.rel < o.rel \/ (p.rel = o.rel /\ (p = o \/ o.dir = "inverse"))

Available(d) ==
  [n \in {m \in Names : Offers(d, m) # {}} |-> LastOffer(Offers(d, n))]

(* parse_expand: each name once, in the order asked.                       *)
Parsed(names) ==
  Entries(names, {i \in DOMAIN names : \A j \in 1 .. i - 1 : names[j] # names[i]})

(* The rows of seq that have field f, and those where it is not null.      *)
Having(seq, f) == {i \in DOMAIN seq : seq[i][f] # NoField}

NotNull(seq, f) == {i \in DOMAIN seq : seq[i][f] \notin {Null, NoField}}

KeysAt(seq, f, I) == {Str(seq[i][f]) : i \in I}

At(seq, f, I, k) == {i \in I : Str(seq[i][f]) = k}

(* The index of a forward expand: the last row with a key wins.            *)
ForwardIndex(seq, f) ==
  [k \in KeysAt(seq, f, Having(seq, f)) |-> seq[Max(At(seq, f, Having(seq, f), k))]]

\* mutant: a plain assignment in place of setdefault(k, []).append
InverseIndexLast(seq, f) ==
  [k \in KeysAt(seq, f, NotNull(seq, f)) |-> <<seq[Max(At(seq, f, NotNull(seq, f), k))]>>]

(* The index of an inverse expand: all rows of a key, nulls left out.      *)
InverseIndex(seq, f) ==
  [k \in KeysAt(seq, f, NotNull(seq, f)) |-> Entries(seq, At(seq, f, NotNull(seq, f), k))]

Lookup(index, k, default) == IF k \in DOMAIN index THEN index[k] ELSE default

(* The field of the row that is expanded, and that of the related rows.    *)
OwnField(o) == IF o.dir = "forward" THEN rels[o.rel].srcField ELSE rels[o.rel].tgtField

KeyField(o) == IF o.dir = "forward" THEN rels[o.rel].tgtField ELSE rels[o.rel].srcField

IndexOf(cache, d) == IF d \in DOMAIN cache THEN cache[d] ELSE Empty

-------------------------------------------------------------------------------
(* The request. *)

(* The executor lists the rows; expand_rows asks for the available names   *)
(* and refuses any other.                                                  *)
Start ==
  /\ step = "start"
  /\ given' = rows[ask.base]
  /\ avail' = Available(ask.base)
  /\ todo' = Parsed(ask.names)
  /\ out' = [i \in DOMAIN rows[ask.base] |-> Empty]
  /\ step' = IF Len(todo') <= MaxNames /\ \A i \in DOMAIN todo' : todo'[i] \in DOMAIN avail'
               THEN "index" ELSE "refused"
  /\ UNCHANGED <<rels, gone, rows, ask, forward, inverse, seen, changes>>

(* One index for each dataset, whatever the field: a name whose dataset is *)
(* in the cache is passed over, and a relationship that is gone leaves an  *)
(* empty index.                                                            *)
BuildIndex ==
  /\ step = "index" /\ todo # <<>>
  /\ LET o == avail[Head(todo)] IN
     /\ forward' =
          IF o.dir = "inverse" \/ o.of \in DOMAIN forward THEN forward
          ELSE With(forward, o.of,
                    IF o.rel \in gone THEN Empty ELSE ForwardIndex(rows[o.of], KeyField(o)))
     /\ inverse' =
          IF o.dir = "forward" \/ o.of \in DOMAIN inverse THEN inverse
          ELSE With(inverse, o.of,
                    IF o.rel \in gone THEN Empty ELSE InverseIndex(rows[o.of], KeyField(o)))
  /\ todo' = Tail(todo)
  /\ UNCHANGED <<rels, gone, rows, ask, step, given, avail, out, seen, changes>>

Indexed ==
  /\ step = "index" /\ todo = <<>>
  /\ step' = "attach"
  /\ UNCHANGED <<rels, gone, rows, ask, given, avail, forward, inverse, todo, out, seen, changes>>

(* null for a forward expand, [] for an inverse one.                       *)
NothingThere(dir) == IF dir = "forward" THEN Null ELSE <<>>

(* What a row gets under a name: its own value looked up in the index.     *)
Attached(o, row) ==
  LET value == row[OwnField(o)]
      index == IF o.dir = "forward" THEN IndexOf(forward, o.of) ELSE IndexOf(inverse, o.of) IN
  IF o.rel \in gone \/ value \in {Null, NoField} THEN NothingThere(o.dir)
  ELSE Lookup(index, Str(value), NothingThere(o.dir))

(* The next cell of the answer, row by row and name by name.               *)
Attach ==
  /\ step = "attach"
  /\ LET names == Parsed(ask.names) IN
     \E i \in DOMAIN given, k \in DOMAIN names :
       /\ \A j \in 1 .. i - 1 : DOMAIN out[j] = RowsIn(names)
       /\ DOMAIN out[i] = {names[j] : j \in 1 .. k - 1}
       /\ out' = [out EXCEPT ![i] = With(@, names[k], Attached(avail[names[k]], given[i]))]
  /\ UNCHANGED <<rels, gone, rows, ask, step, given, avail, forward, inverse, todo, seen, changes>>

Return ==
  /\ step = "attach" /\ step' = "done"
  /\ \A i \in DOMAIN given : DOMAIN out[i] = RowsIn(Parsed(ask.names))
  /\ UNCHANGED <<rels, gone, rows, ask, given, avail, forward, inverse, todo, out, seen, changes>>

-------------------------------------------------------------------------------
(* The other requests. *)

Change ==
  /\ step \in {"start", "index", "attach"} /\ changes < MaxChanges
  /\ changes' = changes + 1
  /\ seen' = [d \in Datasets |-> seen[d] \cup RowsIn(rows'[d])]
  /\ UNCHANGED <<request, rels>>

DeleteRelationship ==
  /\ \E i \in Live : gone' = gone \cup {i}
  /\ UNCHANGED rows /\ Change

(* The rows of the dataset and its relationships go with it.               *)
DeleteDataset ==
  /\ \E d \in Datasets :
       /\ rows' = [rows EXCEPT ![d] = <<>>]
       /\ gone' = gone \cup {i \in DOMAIN rels : d \in {rels[i].src, rels[i].tgt}}
  /\ Change

(* A row is updated by a tool call.                                        *)
EditRow ==
  /\ \E d \in Datasets, f \in Fields, v \in Values \cup {Null} : \E i \in DOMAIN rows[d] :
       rows' = [rows EXCEPT ![d][i][f] = v]
  /\ UNCHANGED gone /\ Change

Next ==
  \/ Start \/ BuildIndex \/ Indexed \/ Attach \/ Return
  \/ DeleteRelationship \/ DeleteDataset \/ EditRow

Spec == Init /\ [][Next]_vars

-------------------------------------------------------------------------------
(* What was promised. *)

(* The join that a name stands for, on the rows as they are.               *)
Joins(r, s, t) ==
  /\ s[r.srcField] \notin {Null, NoField} /\ t[r.tgtField] # NoField
  /\ Str(s[r.srcField]) = Str(t[r.tgtField])

Parents(r, s) == {t \in RowsIn(rows[r.tgt]) : Joins(r, s, t)}

Children(r, t) ==
  IF t[r.tgtField] \in {Null, NoField} THEN <<>>
  ELSE Entries(rows[r.src], {i \in DOMAIN rows[r.src] : Joins(r, rows[r.src][i], t)})

(* A forward expand is an object or null, and an inverse expand an array,  *)
(* whatever other requests do meanwhile.                                   *)
TypeOK ==
  /\ rows \in [Datasets -> Seq(Row)]
  /\ gone \subseteq DOMAIN rels
  /\ step \in {"start", "index", "attach", "done", "refused"}
  /\ \A i \in DOMAIN out : \A n \in DOMAIN out[i] :
       IF avail[n].dir = "forward" THEN out[i][n] \in Row \cup {Null} ELSE out[i][n] \in Seq(Row)

(* expand_rows keeps one index for each dataset and direction, whatever the*)
(* field, and looks up in it what any name asked for needs of it.          *)
Asked == RowsIn(Parsed(ask.names)) \cap DOMAIN avail

SameIndex(m, n) == avail[m].dir = avail[n].dir /\ avail[m].of = avail[n].of

(* No other name of the request needs the index of n by another field.     *)
Agree(n) == \A m \in Asked : SameIndex(m, n) => KeyField(avail[m]) = KeyField(avail[n])

(* While nobody else writes, each name gives the related rows: "A missing  *)
(* parent resolves to null; a childless parent resolves to []".  Two names *)
(* that need one index by different fields are not covered: the second is  *)
(* looked up in the index of the first, and gets rows that are not related.*)
ExpandsAsDocumented ==
  step = "done" /\ changes = 0 =>
    \A i \in DOMAIN given : \A n \in DOMAIN out[i] :
      LET o == avail[n]
          r == rels[o.rel] IN
      /\ n \in RowsIn(ask.names)
      /\ Agree(n) =>
           IF o.dir = "inverse" THEN out[i][n] = Children(r, given[i])
           ELSE IF Parents(r, given[i]) = {} THEN out[i][n] = Null
           ELSE out[i][n] \in Parents(r, given[i])

(* Whatever others do in between, a row that is attached was a row of the  *)
(* related dataset while the request ran, and the relationship joins it if *)
(* the names asked for agree on the field: a stale cache may miss rows,    *)
(* but then never mixes rows up.                                           *)
NothingMixedUp ==
  \A i \in DOMAIN out : \A n \in DOMAIN out[i] :
    LET o == avail[n]
        r == rels[o.rel] IN
    IF o.dir = "forward"
      THEN out[i][n] # Null =>
             out[i][n] \in seen[o.of] /\ (Agree(n) => Joins(r, given[i], out[i][n]))
      ELSE \A s \in RowsIn(out[i][n]) : s \in seen[o.of] /\ (Agree(n) => Joins(r, s, given[i]))

(* validate_relationships: the source rows it counts as orphans.           *)
Orphans(r) ==
  LET target_values == {Str(t[r.tgtField]) : t \in {u \in RowsIn(rows[r.tgt]) : u[r.tgtField] # NoField}} IN
  {i \in DOMAIN rows[r.src] :
     LET v == rows[r.src][i][r.srcField] IN
     v \notin {Null, NoField} /\ Str(v) \notin target_values}

(* The rows that validate_relationships reports as orphans are those whose *)
(* field is set and that expand to null, for a name whose index no other   *)
(* needs by another field: the two agree on what a join is.                *)
OrphansAreNulls ==
  step = "done" /\ changes = 0 =>
    \A n \in {m \in Asked : avail[m].dir = "forward" /\ Agree(m)} :
      LET r == rels[avail[n].rel] IN
      Orphans(r) = {i \in DOMAIN given :
                      given[i][r.srcField] \notin {Null, NoField} /\ out[i][n] = Null}

-------------------------------------------------------------------------------
(* Why this holds: the inductive invariant.                                *)

(* What available_expands may have offered for the dataset that is read.   *)
Offered ==
  {[rel |-> i, dir |-> "forward", of |-> rels[i].tgt] :
     i \in {j \in DOMAIN rels : rels[j].src = ask.base}} \cup
  {[rel |-> i, dir |-> "inverse", of |-> rels[i].src] :
     i \in {j \in DOMAIN rels : rels[j].tgt = ask.base}}

Shaped ==
  /\ rels \in RelSets /\ ask \in Requests /\ changes \in Nat
  /\ given \in Seq(Row) /\ todo \in Seq(Names)
  /\ DOMAIN out = DOMAIN given
  /\ \A n \in DOMAIN avail : avail[n] \in Offered
  /\ seen \in [Datasets -> SUBSET Row]
  /\ \A d \in Datasets : RowsIn(rows[d]) \subseteq seen[d]

CacheOf(o) == IF o.dir = "forward" THEN forward ELSE inverse

(* How far the request is: what is not in todo is indexed.                 *)
Progress ==
  LET names == RowsIn(Parsed(ask.names)) IN
  /\ step \in {"index", "attach", "done"} =>
       /\ names \subseteq DOMAIN avail
       /\ RowsIn(todo) \subseteq names
       /\ \A n \in names \ RowsIn(todo) : avail[n].of \in DOMAIN CacheOf(avail[n])
  /\ step = "start" => forward = Empty /\ inverse = Empty
  /\ step \in {"attach", "done"} => todo = <<>>
  /\ step \in {"start", "index", "refused"} => \A i \in DOMAIN out : DOMAIN out[i] = {}
  /\ step = "done" => \A i \in DOMAIN given : DOMAIN out[i] = names
  /\ \A i \in DOMAIN out : DOMAIN out[i] \subseteq names

(* A row in an index has been in its dataset, with the key it is under.    *)
Keyed(r, o, k) == r[KeyField(o)] # NoField /\ Str(r[KeyField(o)]) = k

IndexesHold ==
  \A n \in DOMAIN avail :
    LET o == avail[n] IN
    \A k \in DOMAIN IndexOf(CacheOf(o), o.of) :
      LET found == IndexOf(CacheOf(o), o.of)[k] IN
      IF o.dir = "forward" THEN found \in seen[o.of] /\ (Agree(n) => Keyed(found, o, k))
      ELSE /\ found \in Seq(Row)
           /\ \A r \in RowsIn(found) :
                r \in seen[o.of] /\ (Agree(n) => Keyed(r, o, k) /\ r[KeyField(o)] # Null)

(* Until somebody else writes, everything is as it was read.               *)
Undisturbed ==
  changes = 0 =>
    /\ gone = {}
    /\ step # "start" => given = rows[ask.base]
    /\ \A n \in DOMAIN avail :
         LET o == avail[n] IN
         o.of \in DOMAIN CacheOf(o) /\ Agree(n) =>
           CacheOf(o)[o.of] = IF o.dir = "forward" THEN ForwardIndex(rows[o.of], KeyField(o))
                              ELSE InverseIndex(rows[o.of], KeyField(o))
    /\ \A i \in DOMAIN out : \A n \in DOMAIN out[i] :
         out[i][n] = Attached(avail[n], given[i])

IInv ==
  TypeOK /\ Shaped /\ Progress /\ IndexesHold /\ NothingMixedUp /\ Undisturbed

===============================================================================
