# multi-log in TLA+

A TLA+ development of multi-log, the tamper-evident, multi-tenant log system in
this repository: models of its services written from the source, TLC runs on
small instances, and TLAPS proofs for all instances. `PROJECT.json` lists
components, runs, mutants, the map from definitions to source lines, findings,
hazards and theorems.

## 1. The system

| Component | Source | State | Operations |
|---|---|---|---|
| ingest gateway | `internal/ingest`, `cmd/gateway` | `Sealer.mu`, `Sealer.heads` (per tenant: next seq, previous hash), lost on restart | `ServeHTTP`, `SealBatch` |
| log store | `internal/logstore` | ClickHouse table `logs` (plain MergeTree: no uniqueness) | `Append`, `Head`, `Tenants`, `EntriesAsc`, `Search` |
| canonical hashing | `internal/crypto` | none | `Genesis`, `EntryLeaf`, `ChainHash`, `CheckpointID` |
| checkpoints | `internal/checkpoint` | none | `Build`, `MerkleRoot`, JSON codec |
| anchorer | `internal/anchor`, `cmd/anchorer` | only the locals of a run | `AnchorAll`, `AnchorTenant` from a ticker and from `POST /anchor` |
| WORM store | `internal/witness/s3worm` | S3 objects `tenant/checkpoints/seqEnd`, versioned and locked | `Put` (Get, then PutObject), `Get`, `All` |
| working copy | `internal/anchorstore` | Postgres tables `checkpoints`, `checkpoint_proofs` | `LastCheckpoint`, `PutCheckpoint`, `PutProof`, `LoadLedger` |
| notaries | `internal/witness`, `rfc3161`, `opentimestamps` | held elsewhere | `Stamp`, `Verify` |
| verification | `internal/verify`, `internal/chain/store.go` | none | `verifyChain`, `verifyCheckpoints` |
| live verifier | `internal/verifylive`, `cmd/verifier` | the locals of a sweep | sweep on a ticker, `GET /verify` |
| control plane | `internal/control`, `cmd/controlplane` | Postgres `tenants`, `api_keys` | `CreateTenant`, `IssueAPIKey`, `Authenticate` |
| query API | `internal/queryapi`, `cmd/queryproxy` | none | `GET /logs` |

The gateway authenticates a request against the control plane and appends to
the log store; the query API authenticates likewise and reads the log store.
The anchorer reads the log store, resumes from the working copy, writes WORM,
then the working copy, then one proof per notary. The verifier reads the log
store, the proofs and WORM. The services share nothing but these stores: there
is no message between them and no lock across them.

What is hard here:

* an `INSERT` whose outcome the gateway does not learn, and what the next batch
  does about it; the head cache against the table; restarts;
* four stores written one after the other by a run that can end anywhere, and a
  next run that must pick up from what it finds;
* two runs of `AnchorAll` at once (ticker and `POST /anchor`);
* a verifier that reads three stores at three moments while both writers go on;
* a key that is looked up once while keys are revoked and tenants deleted and
  created again; a key that is issued in two statements;
* a proof merged from calendars of which some fail or answer in part;
* limits: `EntriesAsc` without a limit, the last short window, odd Merkle levels,
  the body's 16 MiB, length prefixes.

What makes each component correct:

* gateway: per tenant one chain, numbered without gaps or repetitions; a 200
  answer means stored; every request is answered;
* anchorer: every sealed entry gets under a WORM checkpoint that commits to
  what the log holds; checkpoints are never replaced; the three stores agree;
* verifier: says "ok" only of rows that agree with what was anchored, and does
  say "ok" of honest data;
* control plane and query API: an answer holds rows of the asking tenant only,
  among them what was acknowledged before; a dead key opens nothing;
* formats: an encoding, a stored checkpoint and a stored proof say one thing
  only, and say after storage what they said before.

## 2. Modules

| Module | Models | Uses |
|---|---|---|
| `Canonical` | the hashes, as terms without collisions | |
| `Encoding` | the `Encoder`'s byte strings and the checkpoint's JSON codec | |
| `Checkpoint` | `MerkleRoot`, `Build` | `Canonical` |
| `IngestBody` | what `ServeHTTP` and `parseLogObjects` make of a body | |
| `Formats` | what these promise, of lists of hashes, fields and a body's lines that grow piece by piece | `Checkpoint`, `Encoding`, `IngestBody` |
| `FormatsProofs` | the recursions behind the formats and the request body, unfolded; theorems | `Formats`, `Induction` |
| `Gateway` | handler, `SealBatch`, the `logs` table, INSERTs on the wire, restarts | `Canonical` |
| `GatewayInvariant`, `GatewayProofs` | inductive invariants `Inv`, `ReliableInv`; the table as a log (`Log`, `ImplementsAppendLog`); lemmas and theorems | `Gateway`, instance of `AppendLog` |
| `AppendLog` | abstract: per tenant one linear chain that grows at its end | `Canonical` |
| `ControlPlane` | tenants, API keys, `Authenticate` | |
| `DataPlane` | `POST /ingest` and `GET /logs` beside the control plane | `ControlPlane` |
| `DataPlaneProofs` | inductive invariants `DataInv`, `ReadInv`, lemmas and theorems | `DataPlane`, `Induction` |
| `Witness` | `Stamp`, `Verify`, the proof ledger | |
| `Worm` | abstract: the write-once store that `MemStore` is | |
| `Anchorer` | `AnchorAll`/`AnchorTenant` over log, WORM, Postgres and proofs; the WORM bucket as a `Worm` (`ImplementsMemStore`) | `Checkpoint`, `Witness`, instances of `AppendLog`, `Worm` |
| `AnchorerProofs` | inductive invariant `AnchorInv`; what holds besides when runs do not overlap: `SoleInv`, `KeyFree`, `FaultFree`; what passes verification at one moment, and what a sweep reports (`SweepInv`); lemmas and theorems | `Verifier`, `VerifyProofs` |
| `Verify` | what verification reports, as a function of its inputs | `Checkpoint`, `Witness` |
| `VerifyProofs` | what its reports mean, for any inputs | `Verify`, `Induction` |
| `Snapshot` | what verification says of the stores at one moment | `Anchorer`, `Verify` |
| `Verifier` | sweeps beside the gateway and the anchorer | `Snapshot` |
| `Pipeline` | the gateway's real table under anchoring, call by call, and verification | `Gateway`, `Verify` |
| `PipelineProofs` | inductive invariant `PipelineInv`, that `ORDER BY seq` has an order, lemmas and theorems | `Pipeline`, `GatewayProofs`, `VerifyProofs` |
| `OtsWire` | OpenTimestamps proof trees, written and parsed back | |
| `Notary` | `Stamp` by OpenTimestamps and RFC 3161, and their `Verify` | `OtsWire` |
| `NotaryProofs` | what is written is read back, and a cut is noticed; inductive invariant `StampInv`; lemmas and theorems | `Notary`, `Induction` |
| `Induction` | induction over the naturals, in terms of sets; least and largest elements; sizes of intervals; sequences put together from pieces | |
| `MCGateway`, `MCAnchorer`, `MCDataPlane`, `MCSnapshot`, `MCVerifier`, `MCPipeline`, `MCFormats` | instances for TLC | |

**Hashes.** SHA-256 is taken to be free of collisions, so a digest is kept as
what was hashed. A chain hash is the tenant of its genesis and the leaves
absorbed since; a checkpoint id is the one-field sequence of the record that is
hashed, the previous id among its fields, so that equal ids mean equal windows
(`CheckpointIdBinds`). That what is hashed determines the fields is proved, not
assumed: `Encoding` has the length-prefixed byte strings, and
`EncodingIsInjective` reads the fields back from them.

**Gateway.** One action per step between which another goroutine, ClickHouse or
a crash can come. `pc` is the position in the handler, `mu` and `heads` are the
sealer's fields, `draft` holds `SealBatch`'s locals `seq`, `prev`, `entries`.
`SendBatch` puts the INSERT on the `wire`, `Land` executes it, `AppendOK` and
`AppendFails` are `Append`'s two outcomes. `AmbiguousAppend` says whether an
INSERT that failed may have been, or may yet be, executed. That is what a lost
connection, a timeout or a client that hangs up (its request context is passed
down) mean with the ClickHouse driver. A retry by a client is another request.

**Control plane, query API.** A key stands for the one request that can create
it. `IssueLookup` and `IssueInsert` are the two statements of `IssueAPIKey`; the
foreign key and its cascade are in `IssueInsert` and `DeleteTenant`. The schema
has a `revoked` column and a cascade, and `Authenticate` reads the former, but
no code of the repository revokes a key or deletes a tenant: `RevokeKey` and
`DeleteTenant` are an operator's SQL and marked external. `DataPlane` has the
two handlers, each of which looks its key up once and goes by that tenant from
then on; sealing is one step there, as `AppendLog` promises. `req[r].acked` and
`late` remember what was acknowledged, and which keys were dead, when the
request came: they are there for the properties. An answer is a set of rows;
its order is left out.

**Anchorer.** The log is `AppendLog`'s, given by its records. One action per
call of `AnchorTenant`; `Abort` ends a run between any two (error or crash).
`s3worm.Put` is two actions, `WormGet` and `WormPut`. With `LatePuts` a
`PutObject` whose caller gave up is kept in `late` and may be executed at any
later time (`LatePut`). `clock` makes each `anchoredAt` distinct, as nanosecond
timestamps are in practice. A run's slice of the log is given by its bounds,
because the log only grows.

**Snapshot, Verifier.** `HonestVerifies`, `VerifyBinds` and `NaiveChangeCaught`
ask what verification says of what is stored at one moment; they are in
`Snapshot`, which adds no state. `Verifier` adds one sweep, and the `Sweep...`
properties are about it as it runs; sweeps only read, so two of them do not
disturb each other.

**Pipeline.** `Anchorer` reads the log that `AppendLog` promises; `Pipeline`
reads the table that `Gateway` leaves behind, in which two rows may have one
`seq`. `BySeq` gives every order in which `ORDER BY seq` can return them, and
`EntriesAsc` the first `QueryLimit` rows of one, for the anchorer and for the
verifier (`Silent`, which also checks the proofs). `AnchorTenant` is one action
per call, as in `Anchorer`: `BuildAndGet` (with an `anchoredAt` of its own for
each build), `PutWorm`, `PutCheckpoint`, `StampAndPutProof`, `WindowDone`. `AnchorFails` ends a
run between any two of them, and a `PutObject` on its way then may be executed
later (`LatePut`). One run goes at a time; two at once are `Anchorer`'s subject.
Two variables are history, there for the properties: `leaves` are the rows each
WORM object commits to, and `cut` has the tenants of which a run ended with an
object put, or on its way, and not recorded in the working copy.

**Formats.** `Formats` grows two lists of hashes, a list of fields and the lines
of a body, and asks of each state what the Merkle root, the encoding, the JSON
document of a checkpoint and the gateway's parser keep; `MCFormats` takes its
steps, or those of `Notary`. `IngestBody`, `Encoding`, `OtsWire` and `Notary` are on scaled
bytes: what matters is where a boundary lies, not how far away. A body line is
its length, which of its bytes are not blank, and the byte at which a JSON object
at its front is complete: with these, what a cut leaves of the line is, or is
not, JSON by the same rule (`IsObject`) as the line. A digest in a proof tree is one byte
that keeps what it hashes. A proof tree is the sequence of its nodes, root
first, and an operation names the place of the node it leads to; the parser,
recursive in the code, is a reader that has a list of the nodes it still
expects an edge of (the call stack) and takes one edge a turn. A calendar's answer is any prefix of the
tree it computed, or nothing, so a cut at every byte is tried.

Operators whose comment starts with "Mutant" are the definitions' plausible
bugs; each shows that a property can fail (`mutants` in `PROJECT.json`).

## 3. Runs

| Run | Bounds | Distinct states | Result |
|---|---|---|---|
| `gateway` | 2 tenants, 3 requests of 1 or 2 records, ambiguous INSERTs | 50,564 (symmetry) | passes |
| `gateway_reliable` | the same, failed INSERTs have no effect; also the liveness property | 162,608 | passes |
| `dataplane` | 2 tenants, 2 keys, 3 requests, 2 record contents, 4 queries | 251,580 (symmetry) | passes |
| `anchorer` | 2 tenants, 4 entries together, windows of 2, read limit 3, 1 notary, 1 failed run; also the liveness property | 28,004 | passes |
| `anchorer_repeat` | 1 tenant, 2 entries, 1 failed run | | violated: `WorkingCopyMatchesWorm` |
| `anchorer_overwrite` | 2 runs at once | | violated: `WormImmutable` |
| `verifier_honest` | 3 entries over 2 contents, windows of 2, 2 notaries | 42,060 | passes |
| `verifier_binds` | 2 runs at once, 1 failed run, late PutObjects, no notary, all rows of up to 2 entries over 2 contents | 84,280 (symmetry) | passes |
| `verifier_stale` | 2 entries | | violated: `SweepReportsNothing` |
| `pipeline` | 1 tenant, 2 requests of 1 to 3 records, windows of 2, read limit 4, 1 notary, 3 builds, ambiguous INSERTs, late PutObjects | 361,976 (symmetry) | passes |
| `pipeline_retry` | 3 requests of 1 or 2 records, read limit 3, otherwise the same | | violated: `AckedCommitted` |
| `formats` | see below | 186,367 | passes |

Why the bounds are enough for the cases of interest:

* Three requests are a failed batch, its retry, and a third one that finds the
  result of both; two records make batches that overlap only in part; two
  tenants show that a head or a row of one never serves the other.
* `dataplane`: with two tenants and two keys a tenant is deleted and created
  again while the key of the other, or its own new one, is in use; three
  requests are two ingests and a query, or an ingest and two queries with other
  limits. The limits are 2 (largest) and 1 (default), so that an answer can be
  full, exceeded by one, and asked for beyond the largest. The queries are: no
  parameter, a start, an end with a limit too large, and a selection.
* `anchorer`: `MaxLog` bounds the entries of all tenants together, so one
  tenant may have all four. With windows of two and a read limit of three that
  is a full window, a short one, a run of several windows and a read that stops
  short; a second tenant waits while the first fails.
* `verifier_binds`: a checkpoint from 0 and one from 1 that both end at the
  same key need two entries; the overlap of two runs, one of them failing with
  its `PutObject` on the way, needs no third. Beyond that run,
  `ResumePointCovered` and `WormMatchesLog` are proved.
* `pipeline`: two requests of up to three records give one table of six rows or
  two batches that overlap in any part; with windows of two and a read limit of
  four a read stops short, a run has several windows, and rows with one `seq`
  fall into one window or two. Three builds (`MaxBuilds`) are a window that is
  built, one that is built again after a run was cut off, and one that chains to
  it. The table may hold more rows than one read returns.
* `formats`: pairs of lists of up to six of two hashes have odd levels at the
  leaves (3, 5), above them (6), and at two levels at once (5). Fields are up
  to three strings of up to two bytes of base 4, lengths two bytes wide: a
  field can look like a length. Bodies are up to three lines of up to four bytes,
  any of which may be blank, against a limit of six and a buffer of four: a cut
  falls inside a line, at its end, before it, behind an object that text
  follows, and within blanks. Varuints go in groups of 4 values and the
  nonce has four bytes, so that its length prefix takes two bytes; three
  calendars are pending, confirmed in a block, and one that is pending, confirmed
  in a later block, and attests in a form this version does not know. A proof
  merged from the last two has two Bitcoin attestations, of which `VerifyBitcoin`
  takes the first.
* `clock` and the runs are bounded by `MaxLog` and `MaxFaults`: each pass
  either makes progress in the log or uses up a failure. Only `MCFormats` may
  stop (its inputs are complete); all other runs check for deadlock.

**Fairness.** `Gateway!FairSpec`: the goroutine in `SealBatch` goes on (weak
fairness: both network calls end, the driver has read timeouts), and a waiter
gets the mutex in the end (strong fairness: Go's `sync.Mutex` enters starvation
mode and hands over to the waiter). Landing of an INSERT is not assumed.
`Anchorer!FairSpec`: a run that started goes on, and the ticker starts its next
run. Nobody has to send `POST /anchor`, and failures are finitely many
(`MaxFaults`): were a run to fail for ever, nothing would be anchored.

## 4. What the passing runs show

* `ChainRooted`, `AckedStored`, `AckedDisjoint` hold although failed INSERTs
  may land at any later time: an acknowledged batch is stored, keeps its
  positions, and the chain it continues is in the table.
* With trustworthy errors the gateway implements `AppendLog` (refinement
  mapping: the rows in order of `seq`), across crashes.
* `TenantIsolation`, `DeadKeyRefused`, `KeyHasTenant`: no order of issuing,
  revoking, deleting and creating again gives a key a tenant it was not issued
  for. `ReadYourWrites`: a client finds what was acknowledged before, unless
  newer rows fill its answer.
* A single anchoring run at a time implements the write-once store `Worm`
  wherever it fails, never skips an entry, never stores a proof under a
  checkpoint it does not attest, and anchors every entry in the end.
* `ResumePointCovered` and `WormMatchesLog` hold with overlapping runs and with
  a `PutObject` that lands late, although it may replace an object: whatever
  replaces it is truthful, and what it no longer covers is covered by others.
* `VerifyBinds`, the purpose of the construction, holds under the same
  conditions: runs can make verification complain about honest rows, never
  accept others. No proof is needed for that (`verifier_binds` has no notary);
  the WORM store alone suffices.
* The only thing a live sweep wrongly reports is a truncation at entries that
  were sealed after it read the rows.
* `ResumePointCommitted`: over the real table, as long as seqs are unique, every
  row below the resume point is committed to, wherever runs end and although a
  late `PutObject` may replace an object. `AlarmsExplained`: a doubled `seq` is
  always reported; failed and late INSERTs, restarts, and runs that end anywhere
  else raise no alarm, but a run that ends between the WORM write and
  `PutCheckpoint` may (finding 2). Both speak of the live stores between any two
  calls of a run.
* `AnswersKept`, `StampedVerifies`, `BitcoinVerifies`: an answer cut off at any
  byte counts as none, and what the other calendars attested survives being
  written, parsed and recomputed. `BodyKeptOrCut`: an accepted array is taken
  whole; of lines, every one within the limit is kept, and an object exactly if
  it is JSON; only the last object can be made of part of a line.

## 5. Findings

Each is a violation run; `PROJECT.json` quotes the text it contradicts.

1. `pipeline_retry`. A failed `Append` is not always safe to retry. In the
   run, an INSERT fails and is executed all the same, a run anchors its rows, and
   the retry is then sealed under the same seq, acknowledged, and never anchored,
   because it is below the resume point. The rows lost to anchoring need not be
   a repetition: batch A (seq 0 and 1) fails, B (seq 0) is acknowledged, A
   lands, a run resumes at 2, and C, a new batch, is acknowledged at seq 1. Two
   rows with one `seq` also make verification report a gap that nobody caused.
2. `anchorer_repeat`. A run that ends after the WORM write and before
   `PutCheckpoint` makes the next run build the window anew, with another
   timestamp and id. WORM refuses it, Postgres and the notaries take it, and
   the next checkpoint chains to an id that WORM does not hold, which verification
   reports although no row was touched (hence `cut` in `AlarmsExplained` and
   `faults = 0` in `HonestDataVerifies`). If entries were
   added meanwhile, WORM ends up with two overlapping windows.
3. `anchorer_overwrite`. `Put` checks and writes in two requests; two runs at
   once can both write, and readers see the later version.
4. `verifier_stale`. A sweep beside a busy gateway and anchorer can raise an
   alert about honest data.

More things met while modelling, without a run of their own:

* `EntriesAsc` with limit 0 returns at most 100,000 rows, and the verifier asks
  with limit 0. `verifier_honest` has `QueryLimit = MaxLog`; with a smaller
  limit `HonestVerifies` fails, because every checkpoint beyond the limit is
  reported as truncated.
* A body over the limit is cut anywhere, and what is left of the cut line goes
  through `json.Unmarshal` like any line (`handler.go:113-117`): of a text line
  `{"a":1} tail` that is cut behind the brace an object is stored that the client
  never sent, and of others the text read so far. The answer is 200.
* When a notary fails after `PutCheckpoint`, later runs resume after that
  window, so its missing proofs are never made, and verification does not ask
  for proofs that the ledger does not hold.
* `Verify` goes through the tenants that have rows (`TenantIssues` of no rows
  is empty), so a tenant with checkpoints and no row left is not reported.
* A limit of more than 10,000 in `GET /logs` falls back to 1,000, and a start,
  end or limit that does not parse is dropped without an error.
* Logs outlive their tenant: created again under the same id, it sees the rows
  of its namesake. Keys do not come back (`DeadKeyRefused`).
* `VerifyBitcoin` looks at the first Bitcoin attestation in the tree only, and
  `calendar.upgrade`, of which comments in `notary.go` speak, has no caller.

## 6. Proofs

Eight modules hold proofs. Each theorem is about all values of the constants
that the named assumption of its component allows (`GatewayConstants`,
`ControlConstants`, `AnchorerConstants`, `EncodingConstants`,
`FormatsConstants`, `WireConstants`, `NotaryConstants`, ...), and about states of any size: nothing is bounded that
a run bounds. The inductive invariants `Inv` and `ReliableInv` are invariants
of the runs `gateway` and `gateway_reliable`, too. There is one lemma per action
in the modules about a component, and one per conjunct it can disturb where
that is not a line.

### Gateway (`GatewayProofs`)

For every set of tenants and requests, every `MaxBatch`, and both values of
`AmbiguousAppend`: `TypeCorrectness`, `ChainStaysRooted`, `AcknowledgedIsStored`
and `AcknowledgedIsDisjoint`, all from `Invariance`. None of the properties is
inductive: that an acknowledged position is not given out again depends on the
cached head, on the lock holder's draft and on INSERTs nobody waits for any
more. `Inv` adds

* `LockInv`, `RequestInv`: one request at most is between `Lock` and `Unlock`;
* `HeadInv`: a cached head continues a stored row;
* `DraftInv`: the holder's draft starts at the cached head, its entries lie
  between the head and `draft.seq`, and their number is the difference;
* `WireInv`: whatever may still land is linked to stored rows or to its own
  batch, which is why a late INSERT cannot break the chain;
* `AckInv`: acknowledged entries are stored, and below the cached head.

That rows are only added makes "has a stored predecessor" monotone
(`AtMonotone`, `LinkedMonotone`), which carries all of this over `Land`.
`HeadAnswersCorrect` carries it over restarts: the loaded head is above all
rows, hence above all acknowledged ones.

Under the hypothesis `~AmbiguousAppend`, a failed INSERT has no effect:

* `SeqUniqueIfReliable`: sequence numbers are unique. `ReliableInv` adds that
  only the lock holder's INSERT is on the wire and that rows above a cached head
  are those of its batch.
* `TableIsAppendLog`, the refinement: `Spec => ImplementsAppendLog`. The table,
  read in order of `seq`, is `AppendLog`'s log. The positions of a table are
  dense (`Dense`: those of n rows are 0 to n - 1) and a batch that lands has the
  positions that follow them, so `Land` maps to one append and every other step
  to a stutter.

`pipeline_retry` is the run that shows the hypothesis to be needed.

### Control plane and query API (`DataPlaneProofs`)

For every set of tenants, keys, requests and queries and all limits:
`NoReadAcrossTenants`, `DeadKeysOpenNothing`, `LiveKeysHaveTenants`,
`OwnWritesAreRead`, `DataTypeCorrectness`. `DataInv` ties the four copies of a
tenant id together. A stored key has the tenant it was handed out for
(`StoredInv`), a key being issued has not been handed out (`PendingInv`), a dead
key has no row that `Authenticate` accepts (`DeadInv`), rows were sealed with a
key of their tenant (`LogInv`), and a request goes by the tenant of its key
(`RequestInv`). `PendingInv` is what keeps a key dead when its tenant is created
again. `ReadInv` adds what `OwnWritesAreRead` needs: the rows a query remembers
as acknowledged are in its tenant's log, and if one is missing from the answer,
the answer is full of newer ones (the newest n of a finite set of
positions exist and leave out only older ones).

### Anchorer (`AnchorerProofs`)

For any tenants, records, overlapping runs, notaries, window and query limits,
any number of faults, and late PutObjects: `ResumePointIsCovered`,
`WormIsTruthful`, `AnchorerTypeCorrectness`, from `AnchorInv`.
`ResumePointCovered` is not inductive, nor is it with "everything below a run's
resume point is covered": an object that is replaced by one with a later start
could leave a hole. The invariant uses `Tiled(t, n)` instead: every entry below
n is in the window of an object whose *key* is below n. A checkpoint that anyone
may still write, a run or a request on its way, is `Writable`: it tells the
truth about its window, and the log is tiled up to its start. When it replaces
an object under its key, the entries it no longer covers are below its start, so
objects with smaller keys cover them, and no tiling below that key is touched
(`PutObjectKeepsTiled`). `SliceStable` and `TruthfulStable` carry truthfulness
over the growth of the log.

Under the hypothesis `Runs = {Ticker}`, one run at a time:

* `ProofsAttestRecords`, with `SoleInv`: what is about to be recorded is newer
  than all that is (`Ahead`), and what is being stamped was recorded last.
* `WormIsWriteOnce` (and `WormNeverChanges`), if moreover `~LatePuts`: the two
  requests of `s3worm.Put` implement the one step of `Worm`, since the key stays
  free between them (`KeyFree`). `anchorer_overwrite` shows that two runs
  break it.
* `WorkingCopyIsExact`, as long as `faults = 0`: Postgres holds what WORM holds
  (`FaultFree`). `anchorer_repeat` shows that one run that ended early breaks it.

### Verification (`VerifyProofs`, `AnchorerProofs`)

`ChainVerificationExact` is about `verifyChain` alone, for rows of any length:
it reports nothing if and only if the rows are what sealing their records gives.
By induction over the rows, each is linked to the digest of those before it
(`RowDigest`).

* `AnyRowsBound`: whatever rows pass verification agree with the log on every
  entry that WORM covers. `VerificationBinds` is the special case of a history
  sealed anew that the run `verifier_binds` checks. Both need nothing of the
  anchorer but `AnchorInv`, so they hold with overlapping runs, failures and late
  PutObjects, and they do not need the Merkle root: the chain hash at the end of
  a window already determines it.
* `NaiveChangesCaught`: a row edited in place, or removed from the body, is
  caught by the chain alone.
* `HonestDataVerifies`: if `Runs = {Ticker}` and while `faults = 0`, what is
  stored verifies, of logs with `Len(log[t]) <= QueryLimit`. All three are needed:
  the first two as for `WorkingCopyIsExact`, the third because `EntriesAsc`
  returns no more rows (section 5).
* `SweepsReportOnlyNewEntries`: under the first two, a sweep that reads rows,
  proofs and WORM at different times reports nothing but checkpoints that end
  beyond the rows it read. `SweepInv` keeps that what was read is a prefix of
  the log and that the proofs read attest WORM objects. `verifier_stale` shows
  that such reports do occur.

### The pipeline (`PipelineProofs`)

For the gateway's real table, any tenants, batches, notaries, window and read
limits, with ambiguous INSERTs, runs that end between any two calls, and late
PutObjects:

* `ResumePointIsCommitted`: while the positions of a tenant are unique, every row
  below its resume point is a leaf of a WORM object.
* `AlarmsAreExplained`: of a table that one read returns whole, verification
  reports something if two rows have one `seq`, and only if they have or the
  tenant is in `cut`. `SilenceMeansCommitment` combines the two: silence
  means that the acknowledged entries below the resume point are committed to.

`PipelineInv` is a conditional invariant: *if* the positions of a tenant are
unique now, then `TenantOK`. It is inductive because rows are only added, so
that uniqueness, once lost, does not come back; and it uses the gateway's `Inv`
for the rows being a chain. `TenantOK` has one part that holds wherever runs
end: every object, the one in hand and those on their way commit to a slice of
the table that starts at 0 or right behind the window of an object (`Reached`;
`StoresOK`, `RunOK`), so that nothing is left uncovered when an object is
replaced. Its other part, that
working copy and WORM hold the same documents, each chained to the one before
(`ExactOK`), is for tenants not in `cut`. `BySeq`, the orders
that `ORDER BY seq` may return, is defined by recursion over sets of rows; that
a finite set has such an order is proved (`OrdersExist`).

### Formats (`FormatsProofs`)

For every base, width and size that a word can count:

* `RootCommits`: lists of hashes of equal length with equal Merkle roots are
  equal. The loop's levels have equal lengths on both sides, so both loops end
  in the same round, and from there each level determines the one below it
  (`NextLevelBinds`). Without the length this is false (an odd last node stands
  twice), which is why `CheckpointID` hashes the entry count.
* `MerkleRootIsReference`: the loop's root is the root of the tree that
  `Reference` builds by recursion on its depth. Node i of level k is the tree of
  depth k over the hashes from (i - 1) * 2^k + 1 (`LevelsAreTrees`). For that, and
  for the loop ending at the least depth that holds all hashes
  (`LastRoundIsLeastDepth`), a level of m nodes covers more than
  (m - 1) * 2^k hashes and at most m * 2^k (`LevelCovers`).
* `CheckpointIdBinds`: equal ids mean one tenant, window, previous checkpoint
  and time, and the same entry hashes.
* `EncodingIsInjective`: fields are read back from their encoding, from the
  front. A length is recognised because words with the same bytes are
  equal (`BigEndianBinds`); the hypothesis, in `FormatsConstants`, is
  that a field's length fits into a word.
* `CodecKeepsTheId`: a checkpoint that went through JSON hashes to its id.
* `NothingButTheTailIsLost`: of a body, whatever its lines hold, for every limit
  and every buffer size. What the scanner's loop returns is, in order, one object
  for each line of which something that is not blank was read (`ObjectsKept`, by
  induction over its turns); a line within the limit was read whole (`LineRead`),
  and none behind the first that was not, since lines do not overlap
  (`OffsetsGrow`).

`FormatsSpec` leaves out what `MCFormats` has besides, the notaries, of which
`StampSpec` is the specification; a behaviour of `MCFormats` takes steps of the
one or the other, each of which leaves the other's variables alone.

### Notaries (`NotaryProofs`)

For any checkpoint ids, nonce, and number of calendars, each with any path of
operations and any attestations at its end, and for every size of a varuint's
group and word:

* `StampsVerify`: a stamped proof is read back, to its last byte, as the tree
  it was written from, and verifies for its own id and no other.
* `NoAnswerIsLost`: it has every attestation of the answers that were read
  whole and none of an answer that was cut off, wherever the cut fell.
* `BlocksVerify`: `VerifyBitcoin` accepts it against the blocks its calendars
  wrote to, exactly if one of them did.

Assumed is that what a calendar sends fits the length prefixes it is sent with
(`NotaryConstants`) and, for `BlocksVerify` only, that a block has one Merkle
root (`BlocksHaveOneRoot`): else no table of roots suits two calendars that name
one height. That a calendar's answer attests something is part of
`NotaryConstants`; `deserialize` accepts no node without an edge, and a path
that ends in none is no answer.

The lemmas in between say what the parser does with the bytes of a tree. The
nodes of a tree lie in the order in which they are written, so that a node is
followed by its first child and all that comes from it, and then by the next
(`IsTree`). Reading the bytes of a subtree, anywhere in a string of bytes and
with whatever nodes still open, makes exactly its nodes and goes on behind it;
reading fails if the string ends earlier (`TreeReads`, by induction over the
reader's turns: `Reading` relates its position, its nodes and those still open
to the tree, and each edge keeps that or fails, as the lemmas on varuints,
operations and attestations say). `CollectFinds` is by induction from the last
node to the first. `Merge` and `ProofTree` put trees together: they keep
`IsTree`, and the attestations with what they attest (`MergeIs`, `ProofTreeIs`).

None of the three properties is inductive: they say nothing before the token is
written. `StampInv` says of a `Stamp` on its way what the token will be written
from: its node is a tree over what was submitted, whose attestations are those
of the answers read whole, and whose root may be without an edge only as long as
there is no such answer.

### How recursion is proved about

The library's induction theorems take an operator, which the provers cannot
instantiate. `Induction` states induction for sets of numbers instead
(`LeastElement`, `InductionStep`), and a property of n becomes the set of the
numbers that have it. A recursive function `f[n \in S] == e` is
`CHOOSE f : f = [n \in S |-> e]`; that there is one is shown by induction on its
domain (`OrdersExist`, `LevelsExist`, `FlattenUnfolds`, `FieldsOfUnfolds`, ...),
and then its defining equation may be used.

Some definitions were restated for the proofs, and one was corrected by them.
`BigEndian` divides step by step, as the code shifts, where it had a power.
`FieldsOf` and `Reference` are recursive functions. `IngestBody` takes its
lines in turns, as the scanner's loop does, and so does `OtsWire`'s parser; its
trees were records within records and are sequences of nodes. In `ChainIssues`
the kinds of an issue were the arms of a `CASE` that overlap, of which TLA+
leaves the choice open; the code's `if`s have an order, and so has the
definition now.

### Only model-checked

Liveness: `EveryRequestAnswered` (`gateway_reliable`) and `EventuallyAnchored`
(`anchorer`). TLAPS does not reason about fairness here. Every other property of
a passing run is stated by a theorem.

## 7. Not modelled

* Of a record: `recordFromObject`'s choice of message, source and time (an
  event time of exactly the Unix epoch parses to 0 and is taken for an absent
  one; `UnixNano` is undefined outside 1678..2262). The gateway's records are
  model values.
* Of the WORM store: retention expiry, creation of the bucket, listing by key
  prefix (a tenant id that contains `/checkpoints/` is not among the inputs).
* Of the notaries: `calendar.upgrade`, the block explorer's HTTP exchange,
  ASN.1 and signatures of RFC 3161 (library), allocation by `readN`.
* `config`, `witnessbuild` (environment variables, no state), `cmd/demo` (a
  fixed scenario over modelled components), deployment files.
* More than one gateway process: `Sealer`'s comment and the compose file have
  one, and its mutex is what orders the batches.
* In `Pipeline`, two anchoring runs at once: over `AppendLog`'s log they are in
  `Anchorer`. In `DataPlane`, failed INSERTs that are executed: over the real
  table they are in `Gateway` and `Pipeline`.
