# A verification of mcp_playground in TLA+

mcp_playground is a FastAPI application over one SQLite file. Admins define
*servers* that consist of *datasets* (live rows and a seed snapshot of them),
*endpoints* (tools of the types list, search, get, create, update, delete on a
dataset) and *relationships* between datasets; agents call the tools over MCP
(`/mcp/<slug>`) or REST (`/mock/<slug>/...`). Mock LLM endpoints, recipes
(bootcamp exercises that refer to tools), bulk cloning and bulk resets make it a
training ground. This directory holds TLA+ models of the program, the TLC
configurations that check them, and proofs that TLAPS checks.

## 1. Inventory

| Component | Code | State | Operations |
|---|---|---|---|
| Transactions | `db.py` (`connect`, `transaction`), `auth.get_conn` | `_TX_DEPTH`, SQLite's write lock, the connection of each request | open, nested enter/exit, commit, rollback, close |
| Live data | `executor.py`, `service.call_tool`, rows section of `service.py`, `store.py` | `dataset_row`, `dataset_seed_row`, `call_log` | the six tool types; replace, add, reset, save as seed |
| Definitions | `service.py`, `store.py`, schema in `db.py` | `server`, `dataset`, `endpoint`, `dataset_relationship` | create, update, delete of each; clone, import |
| Routing | `rest.py`, `executor.infer_tool_type`, `api.call_tool` | shapes of `endpoint` | change an endpoint, choose a route, run by name |
| Expansion | `service.py` 1381-1624 | the caches of one call | validate, parse, expand |
| MCP | `mcp_builder.py`, `main.mcp_asgi` | none (built per request) | build the tools, list, call |
| Authentication | `auth.py`, gates in `main.py`, `rest.py`, `llm.py` | `session`, `api_key` | login, logout, keys, the gate of each surface |
| Lockout | `auth.py` 280-310 | `_LOGIN_FAILURES` | check, record, clear |
| Rate limiter | `ratelimit.py` | `_HITS` | check |
| Start-up | `main.lifespan`, `db.migrate`, `auth.bootstrap`, `seed.py` | the whole file | migrate, bootstrap, seed, demo relationships |
| LLM endpoints | `llm.py`, LLM section of `service.py` | `llm_endpoint`, `llm_response` | create, update, delete, rules, completion by rule or upstream |
| Recipes | `recipes.py`, recipes section of `service.py` | `recipe`, `recipe_tool` | create, update, delete, validate, public pages |
| Copies | `portability.py`, `service.bulk_clone_server` | a bundle in progress | export, import, bulk clone |
| Cohort | `service.get_cohort`, `reset_all_to_seed` | none | drift report, bulk reset |
| Admin MCP | `admin_mcp.py` | none | one tool per service function |
| URL guard | `netguard.py` | none | validate |
| Admin page | `static/app.js` | the page's own | every admin operation; the Rows JSON editor |

**How they interact.** Every request has a connection of its own
(`auth.get_conn`, `main.mcp_asgi`), handlers run in a thread pool or on the
event loop, and all of them share the file. Nothing in the program locks
anything across requests: order comes only from SQLite's single write lock,
which a transaction takes at its *first write*. Reads before that, also those
inside `with transaction(conn)`, are autocommit reads of whatever is committed
at the time. Service functions call store functions, and both open
`transaction()`, which is therefore reentrant; import opens one around many
service calls. Tool calls write their data and their `call_log` entry in two
transactions. Deletions cascade through foreign keys. Errors that are
`ServiceError` become 400, 404 or 409; anything else becomes a 500. Two
dictionaries live outside of the file, in each process: `_HITS` (under a lock)
and `_LOGIN_FAILURES` (without one).

**What is hard.** (a) Check-then-act: almost every service function reads, then
opens its transaction. (b) Stale row ids, rows, routes and configurations
between a read and their use. (c) Nested transactions and exceptions at any
point. (d) A second transaction (the log) after the first has committed.
(e) Id reuse. (f) Rows that come back from a client with the `_row_id` they were
shown with. (g) Cascades. (h) Crashes between transactions, above all in
first-boot seeding, and processes that start together. (i) Operations that read
a server piece by piece: export, MCP tools, expansion, bulk reset. (j) Time:
sessions, lockouts, the sliding window. PROJECT.json lists each of them under
`hazards`, at its line, with the properties that watch it.

**What makes each component correct.** Transactions: a block takes effect whole
or not at all, nobody keeps the lock, no depth entry is left behind, blocks end.
Live data: a call touches the row it found and nothing else, an acknowledged
write is there or its row is gone, other fields stay, the log is true, ids are
not reused.
Definitions: tools and relationships stay on their server and never dangle,
names are unique, servers are independent, clones are faithful, what cannot be
done is refused and changes nothing. Routing: the most specific route answers,
and what was checked is what runs. Expansion: it is the join the relationship
defines, and never mixes rows up. MCP: the tools served are those of one moment,
and their signatures fit the executor. Authentication: no revoked key or expired
session is accepted, revocation is final. Refusals (lockout, limiter): only with
reason, and not for ever. Start-up: one schema, a known admin, the whole demo,
whatever crashes or overlaps. LLM endpoints: one answer comes from one set of
rules or one configuration, and is logged once. Recipes: a page is one recipe's list, the report
misses nothing. Copies and resets: whole, of one moment, or not at all.

## 2. Modules

| Module | Models |
|---|---|
| `Blocks` | the code of a `with transaction` block as data, and what it makes of a database |
| `AtomicBlocks` | abstract specification of `transaction`: blocks take effect whole, at one instant |
| `Transaction` | `transaction`, `_TX_DEPTH`, connections, the write lock, exceptions, crashes |
| `LiveData` | tool calls and admin requests on rows, seed rows and the log |
| `Catalog` | servers, datasets, endpoints, relationships and every admin operation on them |
| `Routing` | endpoints as shapes and routes, REST, the readonly check of the Executor |
| `Expand` | `expand_rows` with its caches, `validate_relationships` |
| `Mcp` | a request at `/mcp/<slug>`: tools built piece by piece, listed or called |
| `Access` | keys, sessions and the gates of all surfaces |
| `Lockout` | the lockout of one user name, step by step through the dictionary |
| `SlidingWindow` | abstract specification of the rate limiter |
| `RateLimit` | `RateLimitMiddleware` and `check` |
| `Demo` | what `seed.py` creates: servers, datasets, tools, joins, and the columns joins are on |
| `Boot` | migration, seeding, bootstrap, `ensure_demo_relationships`, crashes, overlap |
| `LlmEndpoint` | one LLM endpoint, its rules, and the chat completions it answers |
| `Recipes` | recipes, their tools, the pages, the validation |
| `Portability` | export, import, bulk clone of a server that is edited |
| `Cohort` | bulk reset and drift report |
| `Scenes` | what `MCAdmin` and `MCCopies` have in common |
| `TransactionProofs`, `LiveDataProofs`, `CatalogProofs`, `GateProofs`, `AccessProofs`, `McpProofs`, `BootProofs`, `AdminProofs` | the theorems |
| `MCTransaction`, `MCLiveData`, `MCCatalog`, `MCGate`, `MCAccess`, `MCBoot`, `MCAdmin`, `MCCopies`, `MCMcp` | the instances that TLC checks |

The modules build on each other as layers. `Transaction` has one action per
statement and shows (run `transaction`, theorem `Refinement`) that a block
changes the file in one step. All others use that: there a transaction is one
action, while every autocommit read before it that can see a change of another
request is an action of its own. Where a module keeps only a part of a
component, another has the rest: `Catalog` the datasets of endpoints, `Routing`
their shapes, `Mcp` and `Recipes` their names; a module says in its header which
part it leaves to which.

**Scenes.** Modules that share no state are checked in one run: `MCGate`,
`MCAccess`, `MCAdmin`, `MCCopies` and `MCMcp` instantiate two of them, some with
several sets of constants, and a variable `scene` that the first state chooses
and no step changes says which instance runs. The state graph is the disjoint
union of the graphs of the instances, so a property `scene = "x" => P` holds
exactly if P holds of that instance; the variables of the others stay at a fixed
value. Scenes named `one ...` have one client at a time and stand for long
sequences of legal calls; the rest have clients that interfere. A property that
is required only of a scene with one client is one that interleaving breaks:
section 5 says how. Where the theorems of section 4 speak of a composition, it
declares the constants of its parts or gives them values, and names what it
assumes of them: `GateAssumption`, `RoutesAssumption`, `ExpandsAssumption`,
`MCBootAssumption`, `CopiesAssumption`, `AdminAssumption`. The constants are
declared in every composition, so that the theorems hold for all values of them. The scene with
one client is all that this client does: `LoginsOfOne` in `MCGate`, its own
`Serve` and `Edits` in `MCMcp`, `Edits` and `Exports` or `Resets` in `MCCopies`,
`Trains` and `Reads` or `Administers` in `MCAdmin`, where `Solo` names it.

### Transaction

`disk` is the committed file, `work` the uncommitted pages of the holder of
`lock`. A block is a sequence of `enter`, `write` and `exit` instructions; `pc`
counts those executed. `Enter`, `Exit` and `Unwind` are the three ways through
`transaction()`: `frames[c]` holds the local `depth` of each active call,
`txDepth[c]` the entry of `_TX_DEPTH`. Connections stand for the *address*
`id(conn)`, so a stale entry is found by the next connection opened there.
`Raise` may happen anywhere inside a block, `CommitFails` at the outermost
exit, `BusyTimeout` when the lock is taken, `Crash` at any time. SQLite's
calls (`SqlWrite`, `SqlCommit`, `SqlRollback`) are external. Only exceptions
of class `Exception` are modelled; handler threads receive no other.

### LiveData

`live` maps row ids to rows, `seed` datasets to sequences, `log` and `answer`
record what a call left in `call_log` and told its caller. A tool call is
`Arrive` (resolve the tool and the dataset), one or two reads (`List`, `Find`,
`CheckFields`, `PrepareCreate`, or `ReadFails`), `ToolWrite` or
`ToolWriteFails`, and `LogCall` or `LogFails`. `effect` says what `ToolWrite` has
done: a row was `"written"`, or the UPDATE or DELETE by id has matched none and
was committed all the same (`"missed"`). An admin request is `Arrive`,
`AdminWrite` or `AdminWriteFails`, `Confirm`. A row is abstracted to a few
fields with number values; a `_row_id` inside its stored JSON is kept apart as
`tag`. `LoadEditor` is the admin page filling its editor from `GET .../rows`;
the constant `Echo` says whether admins send such rows back. Status codes of
failed calls are one value, and so are the reasons for a failed read.

### Catalog

The four tables map ids to records, `next` holds the AUTOINCREMENT counters.
A request goes through `Require`, `CheckSource`, `CheckTarget`, `CheckClash`
in the order of its handler, each one autocommit read, then `Commit`,
`CommitBreaks` (a constraint of the schema refuses it) or `CommitBusy`, then
`Confirm`, the read of the row that is answered. Slugs, keys and names are
numbers, since clones are copied in the order of names. A *bundle* is a server
with everything in it by names: what an import brings, and what `BundleOf`
reads off a server for a clone. `createServer` stands for `create_server` (the
empty bundle) and `import_bundle`; bundles that `import_bundle` refuses are not
requests. The two errors of `_clone_server_rows` about datasets outside the
source are unreachable in the model because of `OwnData`, and left out.
`update_endpoint` checks `dataset_id`, or the stored one where a PATCH sends none
or 0, and writes a 0 that was sent. What is left out of the tables: names, descriptions, auth modes, paths, methods,
summary fields, relation types.

### Routing

An endpoint is its method, path and tool name; paths are sequences of segments,
some of them in braces, or `Blank`; the method may be `Blank` too, which the admin
MCP surface lets pass. A writer reads the endpoint, validates the merged shape
(`Check`: `infer_tool_type`, name clashes; a blank path or method is validated as
the stored one), and writes what it was sent in a
transaction of its own, which the schema may refuse (`WriteFails`) or which
finds no row (`WriteNothing`). A REST caller reads all endpoints and chooses
(`_best_endpoint_match`); an Executor caller looks the tool up and, when
readonly, has its type checked; both then call *by name* in another step, which
may find another endpoint. Parameters are assumed to suit the tool.

### Expand

A request fixes the rows it expands, then builds an index of the related dataset
for each name asked for (`forward`, `inverse`: the caches, keyed by dataset as
in the code, so that two names may share an index that was built by the field of
one of them; `Agree` says of a name that no other needs its index by another
field), then attaches to each row the row or rows its key leads to, row by
row and name by name, asking for the relationship again. Others edit a row, delete a relationship or a
dataset in between. `Str` is `str()`, which joins 1 with "1"; null and missing
fields are told apart. `Joins`, `Parents` and `Children` are the reference
definition; `Orphans` is what `validate_relationships` reports.

### Mcp

A dataset is the set of fields its rows have, an endpoint its type, path
parameter and dataset; the type is `Nothing` when `infer_tool_type` knows none for
what is stored (`BlankEndpoint`), and then `ListEndpoints` fails. A request reads the endpoints, then turns them into tools
one by one, reading a dataset each (`AddTool`; the parameters by tool type), then
lists them or calls one: FastMCP (external) refuses what does not fit the
signature and drops what is not in it, `execute` checks again. Editors delete
the server, create, change and delete endpoints, and change or delete datasets.

### Access

`keys` and `sessions` are the two tables, `over` and `doomed` a history of the
credentials that were over and of those over when a request asked. A gate is a
sequence of steps: look the key up, update `last_used_at`, look the session up,
delete it when it has expired; the row read in one step is used in the next.
The scope is asked for writes. Time advances by `Tick`; a process that restarts
forgets its requests and keeps the tables.

### Lockout

Each read and write of `_LOGIN_FAILURES` is a step of its thread. Python's
sharing of a list between the dictionary and a local variable is kept as `owner`,
so that an append through the local name is visible exactly when the dictionary
still holds that list. Failures are numbered and age in ticks.

### RateLimit and SlidingWindow

`hits[c]` is the deque of a caller as ages in ticks, pruned at its front and only
when its caller asks. `SlidingWindow` keeps exactly the admitted requests of the
last window and says who may be refused; `SlidesOverTheWindow` is the refinement
with the ages below the window as the mapping. `wait` counts down the
`Retry-After` that a caller was told.

### Demo and Boot

`Demo` is a table of what the code of `seed.py` creates, as 83 items each in a
transaction of its own, with the index arithmetic of those columns that joins
are made of. In `Boot` a process migrates table by table, stores the version,
checks that there is no server, creates item by item, then bootstraps the admin:
look, hash, log, insert. Any process may die anywhere and be started again; two
may run at once. When one is up, admins delete servers and change relationships,
and `ensure_demo_relationships` lists what is missing and inserts it.

### LlmEndpoint

One slug; `llm` is its row with an id that grows with each creation, `rules` its
rules by ordinal. A rule is the set of probes it matches and its text. Writers
validate against the row they read and write later; callers look the slug up,
and then read the rules in one SELECT, or call the upstream with what they read
at the start. `seen` is the history of rule sets or rows during a request, by
which an answer is judged. When it is settled how a request ends, its log row
is a transaction of its own (`Log`), which may fail (`LogFails`); an exception that
nobody catches ends a request without coming to the log (`EndUnlogged`).

### Recipes

A recipe has a slug, `published`, and tools as pairs of server id and name.
Trainers change recipes (validate, then one transaction that a UNIQUE slug or a
deleted server may refuse), delete servers (which cascades) and change endpoints
(which does not); readers show a page, in two reads, or validate all recipes,
server by server. `dangles` and `public` are histories.

### Portability and Cohort

An export reads keys, then rows dataset by dataset, then endpoints, then
relationships, each step possibly of another state of the server; import and
bulk clone look for the slugs, then work in one transaction. A reset of many
servers lists the servers, then for each the datasets, then resets one after
the other; its first reset takes the write lock (`owner`), what it listed before
may be stale. `DriftIsReal` is about the counts that `get_cohort` compares.

## 3. Runs

| Run | Instance | What it shows |
|---|---|---|
| `transaction` | 2 connections | A block takes effect whole or not at all, with exceptions anywhere, failing commits, busy time-outs and crashes (`AtomicCommit`, the refinement of `AtomicBlocks`); no lock and no depth entry is left behind; every block ends (`BlocksEnd`). |
| `live_data` | 2 clients | Under all interleavings of tool calls and admin requests, a stale update or delete touches no row but the one it found, and `call_log` tells the truth: what was committed, with "ok" for a write that matched no row only if that row is gone for good. |
| `live_data_serial` | 1 client, who may send listed rows back | Row ids are never reused and created rows have an id of their own; writes to rows that have no `_row_id` stored take effect and keep other fields, whatever other rows have stored. |
| `catalog` | 2 admins | Tools and relationships stay on their server and never dangle, names are unique, an operation changes one server, a clone is its source. |
| `catalog_serial` | 1 admin | The checks before each write refuse all they are there to refuse (except a PATCH with `dataset_id` 0, section 5), and expand names are distinct in each direction. |
| `gate` | 2 threads at the login, or 1; 3 callers at the limiter | Refusals have their reason, the deques of `_HITS` are a sliding window (refinement of `SlidingWindow`), and nobody stays out for ever. |
| `access` | 2 requests on any surface; 2 writers of endpoints, or 1 client | Nobody enters by a credential that was over when the request was made; revocation is final and sessions last; the most specific route answers, and without interference readonly principals run nothing that writes, and nothing ends in an exception while no blank path or method is stored. |
| `boot` | 2 processes that may die; or 1 process and an admin | What serves is migrated, its admin's password is known, its recipes' tools exist; a boot without a crash creates the documented demo content; every process comes up; `ensure_demo_relationships` repairs what is missing. |
| `admin` | 2 trainers and a reader, or 1; 2 writers and a caller of the LLM endpoint, or 1 writer | A recipe page shows one list of tools, the validation report misses nothing that dangled throughout; a completion is made from one set of rules or one configuration, and logged once with the status it ends with, or ends in an exception nobody catches. |
| `copies` | exporter and editor; 2 cloners and editor; 1 user; reset and editor; 1 reset | Bundles name only what they contain, all clones are made or none, export and import give the server back, a bulk reset is seen as a whole. |
| `mcp` | a request and an editor; 1 client that edits; a read with `expand` while rows change | The tools served are those of one moment; undisturbed, they are all endpoints, or a 500 for one that cannot be a tool, and signatures fit the executor. Expansion gives the rows the relationships stand for, for names that do not share an index by different fields. |
| `mcp_keyword` | 1 client | *Violation* of `ExposedWhateverTheRowsHold`: a field called like a Python keyword takes all tools of its server away (section 5). |

`IInv` in `transaction`, `live_data` and `catalog` is the inductive invariant
that the proofs of section 4 use. The others (`IInv` of `RateLimit`, `Lockout`,
`Routing` and `Expand`, `SerialInv` of `Catalog` and `LiveData`, `Alone` of
`Routing`, `UpToDate` of `Mcp`) hold on the same instances. They were checked
with TLC before they were proved, and are not properties of the runs because
they say how, and not what, the code guarantees; so were the invariants of
`MCBoot`, `MCCopies` and `MCAdmin` that section 4 names.

**Bounds, and why they are enough.**

- `MCTransaction`: the four shapes of block that service.py runs (one level; two
  levels side by side; three levels; nothing written), two cells, two
  connections; no bound on the number of blocks, crashes or exceptions.
- `MCLiveData`: two datasets of one row each, every kind of request on the first
  and rows added to the second, which takes ids in between. `MaxRows` stops
  *starting* inserting requests beyond row id 3 (4 in the serial run), so that
  ids are handed out again after rows were deleted; two clients are enough for
  one to act between any two steps of the other.
- `MCCatalog`: one bundle of two datasets, a tool and a relationship; `MaxId`
  lets it be imported and cloned once and each other table grow once more.
- `MCGate`: two failures (for `LOCKOUT_FAILURES` = 5) lock a name for two ticks;
  `MaxAttempts` is the number of failures alive at once, which is what two
  threads can have in their lists. The limiter has a window of two seconds at
  two ticks a second, so that `Retry-After` has something to round, a limit of
  two, and callers without a limit; ages are capped at the window.
- `MCAccess`: two keys and two sessions, one that exists and one that is made,
  sessions of one tick; every request may meet every step of another. Endpoints:
  two ids for two writers, three for one client, three ordinary path shapes, two
  strange ones and the blank one, in both scenes.
- `MCBoot`: the whole demo content, item by item, and two tables, since a process
  can be ahead by one table or behind; one crash at any point and one deletion.
  Edits of relationships (two) are made in the scene with one process, since
  `ensure_demo_relationships` meets them, not the boot.
- `MCAdmin`: two recipes and two servers with equal tool names; two ids of the
  LLM endpoint, so that it can be deleted and created again during a request;
  rule sets that overlap, with a default, and one that is refused.
- `MCCopies`: two dataset ids and two keys, one tool and one relationship (three
  ids for a reset of two servers), one row value, or three where sensitive
  fields are stripped.
- `MCMcp`: two tools and two datasets for a request with an editor; one of each,
  but every shape (`{expand}`, a parameter that is no identifier and a blank one
  among them), set of fields and set of arguments, for a client alone;
  two datasets of two rows, two relationships, in one set of them on other fields
  of the same two datasets, up to three expand names and one change
  (`MaxChanges`) for expansion.

Symmetry (`Permutations` of clients, of tokens) is used only in runs without
liveness. Deadlock is checked in every run but `boot`, where crashes, deletions
and edits are bounded and all processes may be up with nothing left to do. In
`mcp` the step `Answered` stands for a response that was sent, after which the
scene `expand` has nothing left to do.

**Fairness.** Safety properties need none. `transaction`: `WF(Run(c))`, a thread
in a block is scheduled; `BusyTimeout` is part of `Run`, because SQLite's busy
handler gives up after `busy_timeout`. Nothing is assumed of exceptions, of
failing commits, or of the connection that holds the lock. `gate`: `WF(Tick)`,
time passes; `WF` of each login step, threads are scheduled; and for the limiter
that a caller keeps asking, as the property speaks of callers who do. No login
and no caller is assumed to stop. `boot`: `WF(Boots(p))`, a process is scheduled
and the platform starts it again when it failed (AZURE.md describes a container
app, whose replicas are restarted), and the end of an admin's request.

## 4. Proofs

**TransactionProofs.** For any well-nested blocks, any connections, cells and
values: `TypeOK`, `LockOnlyInBlock`, `WorkIsPrefix`, `NoStaleDepth`, and
`Refinement`, that `Transaction` implements `AtomicBlocks`. The invariant `IInv`
adds what the code relies on without saying: the frames of a connection hold
0, 1, 2, ... and `_TX_DEPTH` their number (`FramesHoldDepth`), and there are as
many of them as the block has opened (`FramesMatchBlock`). Without the first,
`Outermost` says nothing about the outermost block; without the second, a block
could end with frames left. Assumed: `BlocksAssumption` (blocks are well
nested, which `with` guarantees) and `ConstantsAssumption`.

**LiveDataProofs.** For any datasets, fields, requests and clients: `TypeOK`,
`LogTellsTheTruth`, `RowIdsStandForOneRow`, and, when no `_row_id` is sent back
(`~Echo`), `OnlyTheRowFound`. `IInv` adds `FoundInPlace` (a remembered row id
was handed out, and is gone or still in its dataset), `Untagged` (no `_row_id`
gets into a stored row) and `LogPending` (what holds of a call before its log
entry). The argument: ids below `nextRow` never come back, so a stale id is
harmless. `FirstRowidFree`, ids without AUTOINCREMENT, is the mutant that
breaks it.

For a client that is alone, three properties that interleaving breaks
(section 5): `WritesTakeEffect`, `UpdateKeepsOtherFields` and
`AssignedIdIsFresh`. `SerialInv` says why: the row that was found is in the
table as it was found (`FoundStays`), and the id that `_next_id` picked is still
the next one (`PickedIsNext`). Rows that were shown may be sent back here;
`ShownAsItself` in the first two properties limits them to rows that are listed
under their own id, for of the others they are false (section 5, `store.py:127`).

**CatalogProofs.** For any clients, names and requests: `TypeOK`, `OwnData`,
`IsolatedServers`, `UniqueNames` and `FaithfulCopies`. Checks and write are
separate steps, so `OwnData` is not inductive: `IInv` adds `Vetted`, what is
left of each check by the time of the write. A dataset that was seen on a server
is, later, still there or gone (`WasOn`), because ids do not come back
(AUTOINCREMENT) and no update changes a `server_id`; if it is gone, the foreign
key refuses the write (`WriteGood`). `Good` is what is shown of every
transaction, one lemma per kind: types, `OwnData`, `Stays` (no id returns, no
row moves) and that only one server changes. For a deletion the last part needs
`OwnData` too: a cascade follows `dataset_id`, which could otherwise lead to
another server. `UniqueNames` rests on the schema and on nothing the handlers
check; that is why it holds for any number of admins. `FaithfulCopies` maps the
new rows to those of the bundle or of the source, position by position, through
the ids that insertion gave them. Assumed: `CatalogAssumption`.

For one admin, `SerialInv`: what the handler has found is still so when it
writes, the row (`RowFound`), the datasets (`DatasetsFound`) and the names it
found free (`NamesFree`). From it follow `ExpandNamesDistinct`,
`RefusedByChecks` (no constraint of the schema is needed by any request but a
PATCH with `dataset_id` 0: the checks of the handlers cover all of them),
`ToolsOutliveDatasets` and `ClonesHaveSources`. `ExpandNamesDistinct` is of forward
names among themselves and of inverse ones among themselves, as the checks are.

**GateProofs.** First the limiter (`Limiter!`, the instance in `MCGate`). For any callers, limits, window and length of a tick:
`TypeOK`, `WaitSuffices`, `WaitIsShort`, and that the deques implement
`SlidingWindow`. The deques are pruned only when their caller asks, so they hold
hits that are out of the window; the mapping leaves those out, and a check
first drops what the abstraction has already forgotten (`LiveDeque`: since ages
run from old to young, what a loop at the front prunes is all there is to
prune). `WaitsForTheOldest` is
the rest of `IInv`: whoever waits is full, and waits until its oldest hit has
left, rounded up to the second. Assumed: `RateLimitAssumption` (the window is
positive, a second has a whole number of ticks; a limit may be any number, as
one of zero or less stands for none).

Then the composition, and any threads, times and limits:
`RefusalsAreJustified` and `SlidesOverTheWindow`. `Lockout` reads, prunes and
writes its list in separate steps, and two threads may hold the same list; `IInv`
says that whatever a list holds, in the dictionary or in a local variable, is a
failure that was recorded (`TypeOK`), and that a thread about to judge holds no
more of them than there were in the window when it read (`ListsAreRecent`). For
one thread `KeptBy` says, step by step of the handler, where the failures are
that the dictionary does not hold at that moment; it gives `FailuresCount`, which
two threads break. Every step of the composition is a step of the limiter or
leaves its variables alone. Assumed: `GateAssumption`, `LockoutAssumption`.

**AccessProofs.** For any keys, tokens, requests and times: `NoEntryAfterTheEnd`
and `CredentialsHold` (types, `RevokedForGood`, `SessionsLast`,
`WritesByAdmins`). The invariant adds `OverIsOver` (a credential somebody was
told is over is revoked in the table, or has no time left) and `Guarded`: what
was over when a request asked is still over, and whoever has passed a gate came
by a key or session that was not among it, with the scope its key has in the
table. The key may be revoked between the SELECT and the UPDATE of
`_resolve_api_key`; what makes this harmless is that scopes never change, that
rows never come back (`KeysStay`, shown first, of every step) and that the
request had asked before. Assumed: `AccessAssumption`.

The same module has the theorems on `Routing`. For any writers, callers, tools, paths and bodies: `TypeOK`
and `MostSpecific`. The code sorts the routes that fit by their number of
placeholders; that this chooses the most specific one is the lemma
`FewerPlaceholders`: of two routes that fit one request, each request that the
one with fewer placeholders fits is fitted by the other too. This is not so of
paths in general, but of those `infer_tool_type` admits. For one client, neither a
GET nor a readonly principal runs a tool that writes, every stored shape is
supported or blank, and a request ends in an exception only while a blank one is
stored (`HoldsBlank`, section 5). `Alone` is the invariant for it: what a writer validated is what it
writes (`AsRead`), and what a caller chose is what it runs (`ReadsOnlyRead`).
`CallsAreRouted`, the property of the other two scenes of `MCAccess`, follows
from them, since both scenes are parts of `Routes!Next`. Assumed:
`RoutesAssumption`.

**McpProofs.** For any clients, tools, fields and shapes: `TypeOK` and `InSync`.
The invariant adds `Tracked`: the tools built so far and those still to be
built are together the endpoints of a moment that the request has seen. For a
client alone, `ExposedAsDeclared`: from `UpToDate` (what it holds is what the
tables hold) follows that a request fails only for an endpoint that is not
`Exposable`, serves all of them otherwise, and that `mcp_builder`, which derives
the parameters of a tool from its dataset, and `executor`, which checks them,
agree, but for a path parameter called `expand`. Nothing is assumed of names:
keywords are among the fields and parameters. `ExposedWhateverTheRowsHold`, which
says that fields cannot make a request fail, is what `mcp_keyword` refutes.
Assumed: `McpAssumption`.

`Expanded`, for any rows, relationships and reads: `ExpandsWhatIsRelated`. What it
says of a name is the documented join if no other name asked for needs the same
index by another field (`Agree`); of other names only that rows of the related
dataset are attached, since an index is kept by dataset, not by field (section 5,
`service.py:1564`). The invariant has two halves. `IndexesHold` and `NothingMixedUp` hold whatever others write: a row
in an index was in its dataset during the request, and has the key it is under.
`Undisturbed` holds until the first foreign write: the caches are the indexes of
the tables as they are, and every cell is what they give. The rest is algebra of
indexes: a forward index leads to a parent exactly if there is one
(`ForwardOf`), an inverse one to all children in their order (`InverseOf`), and
`Entries`, the model of appending in a loop, is a sequence (`Ranks`: positions
and ranks correspond). Assumed: `ExpandsAssumption`.

**BootProofs.** For any number of processes, tables, deaths, deletions and
edits: `TypeOK`, `UpMeansMigrated`, `AdminKnown`, `LinksResolve`, and for the
composition `ServesAWholeDatabase` and `EnsureRepairs`. `IInv` adds `Migration`
(the version is stored after the last table, and a process that creates tables
has created no more than there are: whoever is late finds them), `Passwords`
(who is about to insert an admin has written the password to the log),
`Seeding` (what a process has seeded of the script is in the database; the bound
`Quiet` keeps admins from changing it meanwhile) and `Items` (rows fit, links resolve, no two relationships of
a server are on one join). The last gives `EnsureRepairs`. For a process that was
alone, `Reaches` says which items of the script are there at each step, which
makes the demo content whole in the end (`SeededWhole`). Assumed:
`BootAssumption`, `MCBootAssumption`, and `DemoAssumption`, which speaks of the
content of `Demo` only and of no constant or variable: no two of the 83 items
clash, they are what the repository's README counts, their columns fit, recipes
come after the endpoints they name. It is a closed formula over fixed data, so
TLC's evaluation of it in the run `boot` is all there is to show; the theorems
say what processes, crashes and admins make of that content.

**AdminProofs.** The programs that administrators and readers use, four
components and the two compositions `MCCopies` and `MCAdmin`.

- *Portability*, for any exporters, cloners, editors, datasets and slugs:
  `SelfContained`, `CopiesWhole`, `AllClones`. A bundle is read piece by piece
  while everything may change, and yet names only what it contains. The reason
  is in `ListOK` and `BundleOK`: the bundle has a dataset for each that was listed
  and read, in the order of their ids, under the key that was listed, and
  endpoints and relationships take their keys from that list or fail. For a
  client that is alone, `Alone`: what it has read is the server as it is, less
  what `_clean_row` drops; from this follows `RoundTrip`.
- *Cohort*, for any resetters, editors, servers and datasets: `ResetWhole`,
  `DriftIsReal`, and for one client `ResetComplete`.
  `Ledger` is the invariant: what a reset has listed is what it has reset under
  the lock, and what is to come.
- *Recipes*, for any trainers, readers, servers and bodies: `TypeOK`,
  `ReportComplete`, `PageWhole`. `Reporting` says where a reference that dangles
  throughout a validation is: in a recipe that was listed, in what is to be
  validated, or in the issues. `Lists` says that what is stored, and what a
  request is about to store, is a list that some body sent, less the tools of
  deleted servers; `Room` that every creation has an id. For one client `Alone`
  keeps what was validated true until it is written, which gives `NewRefsExist`,
  `ReportExact`, `OnlyPublishedShown` and `NoServerError`.
- *LlmEndpoint*, for any writers, callers, rows and rule sets: `TypeOK`,
  `LoggedOnce`, `OneRuleSet`, `OneConfiguration`, `KeyKept`. `CallerOK` says that
  the row a caller has read, and the rules that it would find now, belong to the
  time of its request; ids do not come back, so an endpoint that is created
  again lends its rules to no caller of the old one. `LoggedOnce` says that the log
holds the status with which a request ended, and nothing of one that ended in
an exception or whose mock was gone. For one writer `Alone` adds
  what was validated, hence `ProxyHasUrl` and `NoServerError`.

The compositions follow, scene by scene: `CopiesAreWhole`, `CopiesAreFaithful`,
`ResetsAreWhole`, `StoredSoundly`, `RecipesAreWhole`, `AnswersFromOneRow`.
Assumed: `CopiesAssumption`, `AdminAssumption`; they say that ids are numbered
from 1, that the special values differ from data, that stripping fields twice is
stripping them once, and that what a scene chooses from is among the values
there are.

**Only model-checked.** Liveness: `BlocksEnd`, `NobodyStaysOut`, and of
`ComesUpAndRepairs` the part `ComesUp` (`EnsureRepairs` is proved). Properties
under fairness are out of the prover's reach. All other properties of the runs
that pass, invariants and action properties, are theorems. What a recursive function computes for every input is
stated by no theorem, since induction over data is out of reach too;
`DriftIsReal` needs only that equal counts have equal sums.

## 5. Observations

What the modelling showed of the program, and what a document, a comment or a
test of the repository says about it. The first is checked as a run with a
violation. Each of the others explains why a property is required of one client
only, or of one process, or under a condition (`ShownAsItself`, `SendsZero`,
`HoldsBlank`, `Agree`, `Exposable`), or why it says no more than it does: the
condition left out, TLC finds the behaviour described.

| Code | What happens | What is said |
|---|---|---|
| `mcp_builder.py:55` | Any field that is an identifier becomes a parameter, keywords such as `from` too, which `inspect.Parameter` refuses: `build_server` raises, and no tool of the server can be listed or called. Run `mcp_keyword`. | "Build a stateless FastMCP server exposing every endpoint of `slug` as a tool." (`mcp_builder.py:151`) |
| `store.py:127` | Rows saved from the editor keep the `_row_id` they were listed with in their data, which `list_rows` then prefers to the real one: updates and deletes are acknowledged and do nothing. | `test_update_tool_persists_the_change` (`tests/test_mcp.py:158`) |
| `store.py:152` | An update or delete whose row was deleted since it was found matches none, is logged "ok" and answered as done. | `test_update_unknown_id_raises_not_found`, `test_delete_unknown_id_raises_not_found` (`tests/test_executor.py:372`, `:398`) |
| `executor.py:203` | Of two concurrent updates of different fields of a row, one is lost. | `test_update_merges_body_fields_and_keeps_untouched_fields` (`tests/test_executor.py:341`) |
| `service.py:437` | An endpoint created while its dataset is being deleted disappears; both requests succeed. | `test_delete_dataset_refuses_referenced_dataset_then_allows_after_endpoint_delete` (`tests/test_service.py:197`) |
| `service.py:203` | A server deleted while it is being cloned is cloned as an empty one. | "`404` if the source is missing" (`README.md:134`) |
| `service.py:1331` | Two concurrent requests create two relationships of one expand name. | "`409` on a duplicate expand name" (`README.md:246`) |
| `service.py:1335` | Without any race, a forward and an inverse expand name of one dataset may be the same: each is compared with its own kind. `expand_rows` then knows only one of the two. | "`409` on a duplicate expand name" (`README.md:246`) |
| `service.py:627` | A PATCH of an endpoint with `dataset_id` 0 is checked as one of the stored dataset, and ends in a 500 (`IntegrityError`). | `test_endpoint_dataset_must_belong_to_same_server` (`tests/test_service.py:124`) |
| `service.py:352` | The loser of a race for a slug, key or tool name gets a 500 (`IntegrityError`). | "`409` if the slug exists" (`README.md:134`) |
| `auth.py:402` | Of two concurrent revocations of a key both are told that they revoked it. | "returning whether a live key was revoked" (`auth.py:401`) |
| `auth.py:299` | Of two failed logins at once only one is counted. | `test_login_lockout_after_five_bad_attempts` (`tests/test_auth.py:247`) |
| `service.py:1564` | Two relationships between the same two datasets by different fields, asked for in one request: the second is looked up in the index of the first, and rows that are not related are attached, with nobody writing. | "A missing parent resolves to `null`" (`README.md:231`) |
| `service.py:625` | One PATCH with the path `""` (over the admin MCP surface, with the method `""`) is validated as the stored path and stores the blank one: listing the endpoints raises (`service.py:545`), and every REST and MCP request of the server is a 500 from then on. Two concurrent updates, of method and of path, can store a shape that neither validated with the same result. | `test_unclassifiable_endpoint_shapes_raise_service_error` (`tests/test_service.py:138`) |
| `api.py:415` | The type of a tool is checked in one read and the tool called in another: an endpoint updated in between lets a readonly principal write. | "Readonly principals may run read-shaped tools but not create/update/delete ones." (`api.py:65`) |
| `api.py:66` | An admin runs tools that write through the Executor surface. | "The `Executor` surface is admin-gated and read-only" (`README.md:295`) |
| `seed.py:1728` | A process that dies while seeding leaves a part of the demo content, which no later boot completes. | "First boot seeds 5 servers, 15 datasets, 42 endpoints, ..." (`README.md:257`) |
| `seed.py:1846` | When all servers are deleted, the next boot seeds again, meets the recipes that are still there and does not start. (`MaxDeletes` keeps the run `boot` from it.) | "Seed demo content only when the database has no servers." (`seed.py:1727`) |
| `service.py:1668` | `ensure_demo_relationships` answers 500 when another relationship has the name of a missing one. | "`200` ... Idempotent." (`README.md:248`) |
| `service.py:710` | An update to proxy mode and one that blanks the URL both pass their checks and leave a proxy without a URL. | `test_proxy_llm_requires_upstream_url_but_mock_does_not` (`tests/test_service.py:284`) |
| `llm.py:270` | What `aread()` of a refusal by the upstream raises is caught nowhere: the client of that connection is not closed, and the completion ends in a 500 that is not logged. A failing log transaction (`llm.py:326`) turns a completion that was answered into a 500, unlogged too. | A refused request is logged: `assert any(row["status"] == "unauthorized" for row in logged)` (`tests/test_llm.py:400`) |
| `service.py:871` | A public recipe page that is being read while its recipe is withdrawn shows the tools of the draft. | "Only `published = 1` recipes are exposed." (`README.md:180`) |
| `service.py:886` | A recipe is created with a tool whose endpoint was deleted after the check. | `test_tool_ref_to_missing_tool_returns_400` (`tests/test_recipes.py:115`) |
| `service.py:904` | `update_recipe` does not turn a taken slug that it learns of from the schema into a 409. | `test_duplicate_slug_returns_409` (`tests/test_recipes.py:81`) |
| `service.py:510` | A dataset deleted during a bulk reset makes all of it fail with a 404. | "Empty prefix resets all servers." (`README.md:215`) |
| `service.py:336` | `in_sync` compares numbers of rows: edited rows, or one added here and one deleted there, pass for in sync. | "`Data drift` means live rows differ from seed rows." (`README.md:212`) |
| `portability.py:134` | An export that reads an endpoint on a dataset created since it listed the datasets ends in a `KeyError`. | "Build a self-contained JSON bundle for a server." (`portability.py:112`) |
| `service.py:426` | `update_dataset` accepts a blank key; the export of that server cannot be imported. | "`import_server` imports that bundle" (`README.md:407`) |
| `mcp_builder.py:96` | Over MCP, a create on an empty dataset stores nothing but an id: the tool has no parameters, and what is sent is dropped. | "An empty dataset accepts anything." (`executor.py:159`) |
| `mcp_builder.py:83` | A path parameter called `expand` is a tool parameter twice for a get, so that no tool of the server can be built; updates and deletes by it are always refused (`executor.py:73`). | "Build a stateless FastMCP server exposing every endpoint of `slug` as a tool." (`mcp_builder.py:151`) |
| `mcp_builder.py:163` | An endpoint or server that goes while the tools are built ends the request in an uncaught `NotFound`. | "Building per request keeps tools in sync with edits" (`mcp_builder.py:203`) |

One more, of which no run speaks: `import` is guarded by `require_admin` where
other writes use `require_write`.

## 6. Not modelled, and the plan

Left out, and why:

- `admin_mcp.py`: each of its tools checks a `confirm` flag and calls one service
  function that another module models; its gate is in `Access`.
- `netguard.py`: a pure check of a URL and of the addresses it resolves to.
- Formatting: `build_swagger`, the HTML of `recipes.py` and of the pages, the
  texts of errors; summary fields of list rows; the filters and limits of `list`
  and `search`; the values of the demo rows beyond the columns that joins use.
- `static/app.js` beyond its Rows JSON editor; deployment scripts.
- In `Mcp`, the types and values of arguments (FastMCP's coercions); in
  `LlmEndpoint`, the models list and the stream after its first piece; in
  `Access`, `AUTH_DISABLED=1`, cookies and hashing.
- In `Boot`, `ensure_journal_compatible`, which changes the journal mode of a
  file on disk.

What could come next:

1. `Boot` with `ensure_journal_compatible`, and a second release whose migration
   changes a table that exists.
2. Larger instances of `LiveData` with rows sent back by two clients.
3. A refinement of `Portability` and `Catalog`: the bundle read piece by piece,
   when nobody interferes, as `BundleOf`.
