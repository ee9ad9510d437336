# Secret Broker in TLA+

Models, model-checking runs and machine-checked proofs of the broker service
and its client library in this repository. Paths are relative to the
repository root; `handlers.rs`, `sealed_store.rs` and the like are under
`services/secret-broker/src/secret_broker_impl/`, `lib.rs` is the one of
`crates/secret-broker-client/src/`.

## The system

| Part | State | Operations | Meets |
| --- | --- | --- | --- |
| Sealed store (`sealed_store.rs`) | one sled tree: handle id to encrypted record | insert, load, delete, mark used, renew, revoke, threshold, assignments, caveat key, claim | every handler; each operation is its own blocking task, without a lock |
| Identity checks (`handlers.rs:677-870`, `mod.rs`) | none; the connection's context and the record's lineage | issue, hold, manage, custody | every handler, on a loaded copy |
| Lifecycle handlers (`handlers.rs`) | none of their own: awaits over the store | wrap, unwrap, renew, revoke, rotate, delete | store, crypto engine, log |
| Minting and custody (`handlers.rs:872-1043`, `2036-2430`) | threshold, assignments, held shares in the record | mint, claim, distribute, combine | store, threshold sharing |
| Attenuation and discharge (`handlers.rs:1411-1541`, `1906-2019`) | caveat keys in the record | attenuate, mint discharge | store, macaroons |
| Macaroons (`macaroon_caveats.rs`) | none; an HMAC chain in the handle | mint, add caveat, verify, discharge | handlers |
| Threshold sharing (`threshold.rs`) | none | split, verify, reconstruct | mint, rotate, unwrap |
| Transparency log (`transparency.rs`) | append-only file, sequence number, chain head | record, recover, verify | handlers (errors are swallowed) |
| PostgreSQL leases (`postgres.rs`) | table of issued leases, the roles themselves | issue, cleanup loop | database |
| Crypto engine (`crypto_engine/`) | key tables, key cache, sealed key pairs, gauge, locks | generate, sign, verify, encrypt, decrypt, rotate | handlers, gRPC adapter |
| gRPC adapter, service, TLS, RA-TLS | connections | conversion, authentication | handlers |
| Client (`crates/secret-broker-client`) | cache of redeem material | the same RPCs with a deadline | service |

What is hard about it: a handler decides on a copy of the record and acts in a
later store task; *every* store operation, `load` included, writes the whole
record back; the client's deadline drops a handler at its await while the
blocking task it spawned goes on; rotation and minting take several store tasks
that may fail or be cut off one by one; the log takes its number, its link and
its place in the file in three steps without a lock; the engine's tasks hold
fair locks across awaits. `PROJECT.json` lists these hazards at the lines where
they bite.

## Modules

| Module | What it is |
| --- | --- |
| `Identity` | contexts, seals, and the predicates of `v2_unwrap_principal` and the three `validate_*` functions |
| `SealedStore` | the tree and one task per request: `Call`, `Read`, `Write`, `StorageFault`, `FlushFault`, `StoreCrash`; one operator per store operation says what it does to its copy |
| `Capability` | what the broker promises of a handle, with no store and no time |
| `Broker` | the twelve secret handlers over the store, with clock, faults, dropped handlers and crashes; the refinement of `Capability` |
| `BrokerOnKeys` | `Broker` with the waits of its issuing handlers for the key tables of the crypto service, whose rotation task may keep them |
| `Macaroon` | handles as lists of caveat texts with a chain, in the hands of holders who copy, extend and edit them; `attenuate`, `mint_discharge` and the checks of `unwrap` |
| `Threshold` | polynomials, shares, commitments and reconstruction in a prime field |
| `TransparencyLog` | `record` in its five steps, the file piece by piece, recovery; the refinement of `AuditTrail` |
| `AuditTrail` | an append-only list of events, some of them acknowledged |
| `PostgresLeases` | a request's transaction statement by statement, the table of leases, the cleanup loop |
| `FairLocks` | tokio's fair `RwLock` (external): holders and a first-come queue |
| `CryptoService` | the engine service: each operation is a script of locks and what is done under each |
| `Client` | the client adapter's calls from await to await, its cache, the channel, and the broker as the adapter sees it |
| `*_proofs` | inductive invariants, lemmas and theorems: `Broker_proofs` those of `SealedStore` and `Broker`, `BrokerClaims_proofs`, `BrokerSerial_proofs` and `BrokerCapability_proofs` more of `Broker`, the others those of the module they are named after |
| `MC*` | argument sets and symmetry for TLC; `MCBrokerOnKeys` lets requests, which differ only in their names, begin in order, where symmetry would not be sound for liveness |

**Store.** `store`, `task` and `issued` are the tree, the blocking task of each
request and a history variable with the record a handle was issued with. A
record keeps the fields that any check reads. The seal is the part that no
operation assigns again. Presence of the redeem nonce is a Boolean; held shares
and commitments are written with the assignments and the threshold, and are
represented by them; a caveat key is named after the request that created it.
Encrypting and decrypting a record gives the record back, so records are kept
in the clear. `last_accessed` is not read by anything and is left out. Insert
and flush are one step, either of whose outcomes may be an error; a crash that
loses an unflushed insert is therefore not represented.

**Broker.** `pc[r]` says which await a handler is at. An action is the code
between two awaits: it evaluates its checks on `task[r].copy`, then calls the
store, answers an error, or goes on to `RecordEvent` and `Reply`. A call's
inputs are in `Calls`; what depends on bytes (a handle that parses, a signature
that verifies, share values) is one of two Booleans, `wellFormed` for what is
checked before the load and `valid` for what is checked after it. `Macaroon`
and `Threshold` say what makes the second one true. The `Expires` caveat equals
`expires_at` and is represented by it. A combine records two events, merged
into one. `Serial` restricts *arrivals*: no call arrives on a handle on which
another is at work.

**BrokerOnKeys.** Between its checks and its insert a wrap, a mint or a rotation
awaits `generate_key_pair` and `sign_data`. `Broker` takes that stretch as part
of one step, since nothing that it does shows in the store or in an answer.
`BrokerOnKeys` adds it as a `pc` of its own, `"persist"`, with the rotation task
as `rotation`: once a key was made the task may meet it expired, and from then
on it keeps the locks that `generate_key_pair` waits for (`CryptoService` and
`doc_key_rotation` have the locks themselves). Only a restart ends that. All
other steps are those of `Broker`.

**Macaroon.** A signature is the sequence of what went into its HMAC, which
makes the chain injective and keeps anybody without the root key from
continuing another prefix. Whoever holds a handle may add any text behind it,
the broker's `attenuate` adds its own, and `genuine` remembers which copies
nobody edited. For a third party caveat `attenuate` makes a key and waits while
`append_third_party_caveat_key` reads the record and writes it back; any other
store operation (`Read`, `WriteBack`) may do the same meanwhile, and the later
write wins. A discharge is bound to the chain at its caveat. Its expiry goes
over the wire in whole seconds, no MAC covers it, and a number out of range is
read as no expiry, so discharges are presented as they were issued or with any
of `Timestamps` in that field. Caveat texts are shorter than 2^16 bytes, and
nothing is added to a copy that was already edited.

**Threshold.** The scalar field has order five instead of the curve's, with
inversion by search; a commitment is represented by its exponent, which has the
same equalities. A secret above the order is among the inputs.

**TransparencyLog.** `Claim`, `ReadHead`, `MoveHead`, `WriteLine` and `EndLine`
are the steps of one `record`. The file is a sequence of pieces (a line, a torn
line, a newline), so that a torn or a glued line arises as in the code. A hash
is represented by the line it is of.

**PostgresLeases.** The database is external: a transaction that met an error
refuses its later statements, and its commit then creates nothing and reports
success. A commit may take effect and its reply be lost. A role ends by its
own `VALID UNTIL`, also when nobody remembers it.

**CryptoService.** A script is a sequence of steps, each with the lock it takes
or frees and the code under it, for every RPC that reaches the engine, for the
signing pair of `wrap` and for the rotation task. A key is named after the task
that made it. An ML-KEM encryption hands its new pair to a blocking task of the
sealed key store (`StoreKyberKeypair`, `InsertPair`, `FlushPair`, `StoreFails`),
waits for it (`Stored`) and encapsulates then; the task runs on when the caller
is dropped. A death loses keys, cache and running tasks, and of the sealed key
store any pairs that were inserted and not flushed.

**Client.** Tasks share one adapter and one channel. A request or its reply may
be lost, a caller may give up, the channel may reconnect with another exporter
and the same identity. The broker side is atomic per request: it keeps which
secret a handle names, whether it is live and what redeems it.

Definitions whose comment begins with "Mutant" are deliberately wrong variants
of the definition below them. They are used in place of it to confirm that a
property notices; no specification uses them.

## Runs

| Run | Shows | Bounds |
| --- | --- | --- |
| `store_any_callers` | `VersionsConsistent`, `SealsKept`, `InertForever` | 1 handle, 2 tasks, any call at any time; records are independent, so one handle is enough, and a lost update needs two tasks |
| `broker_serial` | `ImplementsCapability`, `ClaimsKept`, `CombineNeedsClaims`, `CaveatKeysKept`, `CompleteBeforeUse` | 4 requests that take turns on a handle; a menu of lifecycle calls, of attenuation, or of custody with threshold 2 of 2, each on one handle with one fault, or of rotation on 2 handles: 4 requests without a fault, 3 with one |
| `broker_overlap` | `DeadNeverServed`, `EffectsAuthorized`, `CompleteBeforeUse`, `LeaseWithinExpiry` | 4 requests: one issues, three overlap; a menu of every call on 2 handles, where a fault (crash, dropped handler or flush error) leaves 3 requests; one of unwrap, revoke and delete on one secret with 4 requests and one fault; one with a clock to 3, time to live 2 and leases up to 2, so that each runs out; a 4-bit machine integer makes one time to live wrap |
| `broker_answered` | `Answered` | 3 requests that begin in the order of their names, 3 handles, so that no request waits for an id, one fault of five kinds, the rotation task |
| `macaroon_holders` | `NobodyRemoves`, `AddingNarrows`, `AcceptedIsMet`, `MetIsAccepted` | 2 handles, 2 holders, up to 5 caveats, one third party and key, one discharge, two store tasks at a time or one edited copy, clock to 3 with two ticks to a second, timestamps within and out of range |
| `threshold_shares` | `EnoughRedeem`, `NothingElseRedeems`, `FewerSayNothing` | every polynomial over five elements, up to 3 shares, lists of up to 3 with one wrong share |
| `log_recorders` | `ChainUnbroken`, `NumbersIncrease`, `NumbersDistinct`, `AckedWritten`, `ImplementsTrail` | 3 recorders, 2 restarts, one failing append, one dropped caller |
| `postgres_leases` | `RolesLapse`, `AnsweredHasRole`, `LiveRolesTracked`, `CleanupSparesLive` | 2 requests, clock to 5, leases of 1 to 3, grace 1, two faults |
| `crypto_tasks` | `TypeOK`, `GaugeBalanced`, `RefusedStaysRefused`, `UsageCounted`, `RoundTrip`, `OpensAgain`, `WorkGoesOn` | 3 requests and the rotation task, clock to 2 with keys that live 1, one key per customer, one drop, death or store error |
| `client_sessions` | `TakenOnce`, `MaterialKept`, `EndedForgotten`, `PrincipalsAgree` | 3 tasks, 3 handles, sixteen kinds of call, four kinds of connection, one fault, clock to 1 |

The two broker runs with menus (`MCBrokerMenus`) hold several small instances:
the constraint `Fits` keeps a behaviour within the calls, handles, requests,
clock and faults of one menu. All five only accumulate, so a state that fits a
menu is reached within it, and nothing that a menu allows is cut off. Faults
multiply the states of two handles at work at once the most, so a fault beside
a rotation has one request less: one issues, one rotates, and one more uses or
ends either secret, which is enough for the old secret to be gone and the new
one incomplete.

`DeadNeverServed` is the guarantee that survives every overlap: a request that
arrives when its handle is expired, or when neither the tree nor any copy about
to be written back holds redeem material, gets no plaintext. The stronger
refinement of `Capability` needs callers that take turns and are not cut off.
`CaveatKeysKept` and `ClaimsKept` are also checked for callers that take turns;
overlapping write-backs can lose either. `ChainUnbroken` says for the log under
which conditions `verify_chain` succeeds: no two calls overlapped, and no
append ended half way. `ImplementsTrail` needs neither.

Two runs end in a counterexample to something the repository says:

| Run | Says | Does |
| --- | --- | --- |
| `doc_single_use` | "Single-use capabilities permit exactly one successful unwrap." (`handlers.rs:20-21`) | two overlapping unwraps both load before either consumes |
| `doc_key_rotation` | "Rotate expired keys" (`crypto_engine/key_manager.rs:579`) | `rotate_key` holds the key tables for reading while the pair it asks for waits to write them; the key stays active, and everything queues behind the writer |

Others were met while modelling and have no run of their own: the store task of
a timed-out request can write its old copy over a consumed record ("one wrap,
one unwrap, then inert", `sealed_store.rs:41`) or over a revoked one ("marking
it permanently inert", `sealed_store.rs:652`); a crash between the two halves
of a rotation leaves both secrets ("Atomically wrap a new secret and revoke an
old one", `proto/secret_broker.proto:53`); the redeem token's own lifetime ends
the unwraps of a lease that is still active (`README.md:150`). `InertForever`,
`CompleteBeforeUse` and `MaterialKept` state what does hold there.

`Answered` has one exception, and it is needed: a request that issues a secret
waits for ever once `rotate_key` waits for itself, so TLC refutes the property
without it. What the exception leaves is that unwrap, revoke and delete never
wait for the rotation, nor does a wrap or a rotation that has its key, and that
one that waits has stored nothing.

`RoundTrip` says what an answered ciphertext is worth: AES-GCM and ChaCha20 ones
open while the process lives, ML-KEM ones across restarts until another
encryption got a pair into the store under the same id. That encryption need
not have been answered: it may have failed, or its caller may have gone.

**Fairness.** `Answered` assumes weak fairness of each request's handler and of
its store task: tokio polls a woken handler, and its blocking pool runs every
task it was given. A handler that waits for a key pair is owed a step only
while `rotate_key` does not keep the tables: tokio's locks are first come, first
served, and by `WorkGoesOn` everybody else who holds one goes on and lets it go.
Nothing in the code makes `rotate_key` do so. `doc_key_rotation` assumes weak fairness of every task of
the engine, of the interval and of the clock. Nothing is assumed of clients or
faults. `WorkGoesOn` is the safety half of progress in the engine: some task
can move unless `rotate_key` holds its guards, and every step shortens a
script. `rotate_key` must be excepted: it reads a table that it already reads,
and waits for ever when a writer has queued in between, with any number of
keys. For the same reason `crypto_tasks` does not check for deadlock.

**Bounds.** Constants named `Max...` bound clocks, faults, list lengths and
counts in the guards of the actions that would pass them; sets of requests,
tasks, handles and calls are given by the configuration; `RenewalMax` is where
the 32-bit counter saturates. `Room` keeps a call that would issue a handle
from arriving when no id would be left for the rotations under way, and
`MaxHandles` the client's broker from issuing more: ids are random UUIDs and do
not run out.

## Proofs

Each theorem holds for every value of the constants that the named assumptions
of its module allow: any sets of handles, requests, tasks, recorders, calls and
principals, finite or not, and any bounds. What the runs check is seldom
inductive; the strengthening that each proof adds is what follows.

**The store** (`Broker_proofs`, first part; `StoreAssumption`,
`NoneAssumption`): `StoreTyped`, `StoreConsistent`, `StoreSealsKept` and
`StoreInertForever`, for any callers. A task's write depends on the copy it
read, so `StoreInv` also says that a task that has read holds a typed copy of
its handle's record (`TasksOK`), that every issued record is fresh
(`IssuedFresh`), and that every version, stored or pending, is consistent and
carries the issued seal (`VersionsSound`). `AppliedTyped` and `AppliedKeeps` say
once what each operation does to a record.

**Who is served** (`Broker_proofs`; `BrokerAssumption`): `BrokerTyped`,
`BrokerIsStore`, `BrokerAuthorizes`, `BrokerNeverServesDead`,
`BrokerCapsLeases`, for any calls and with or without overlap. `BrokerInv` joins
`StoreInv` with what a request at an await has been through (`Arrived`), that a
handler waiting for a load gets a sound version of its own handle's record
(`Loading`), and that there is an unissued id for every rotation that may still
need one (`RoomKept`). `HandlerMoves` reduces the twenty handler actions to five
kinds of step. On top of it, `Authorized` and `Doomed` say per request what its
load decided, and `LeasesWithin` that a renewal under way carries a lease that
was capped against the issued expiry. `BrokerIsStore` makes every handler a
caller that the store allows, so that the store's theorems hold of the broker.

**What is told** (`BrokerClaims_proofs`): `BrokerCompletes` and
`CombinesNeedClaims`, also with any overlap. Until a handle is told to somebody
only the request that issues it touches its record: `IssueInv` says that no two
requests issue the same handle, that callers name only handles they were told,
and, stage by stage, what the issuing request has made of the record and what
its store task is about to do (`Stage`). `Private` is the fact that makes it
inductive. `ClaimInv` adds which store task each await has under way and with
which argument (`Duty`), and that every claimed share in any version of a record
was asked for by its custodian and its threshold is the one its issuer asked for
(`RecordsTruthful`): a stale write-back can take a claim back, and never invent
one.

**Callers that take turns** (`BrokerSerial_proofs`, `BrokerCapability_proofs`):
`CaveatKeysStay`, `ClaimsStay` and `BrokerIsCapability` assume `Serialized`:
`Serial` holds and no handler is dropped, which is how `broker_serial` is
configured. With overlap they do not hold: a stale write-back can lose a key or
a claim, and `doc_single_use` has two unwraps that are both served. Crashes, store errors and failing flushes stay.
`SerialInv` says that one request at a time runs on a handle (`OneAtATime`), so
that a copy that was read or loaded is still the record (`Current`), and that a
key or claim is in the record from the moment its store task succeeded
(`Noted`). `BrokerIsCapability` is the refinement: `CapOf` reads a handle's state
off its record, and `ServeInv` adds that a token is consumed only while the
capability is live and that a plaintext is released only on a leased handle or
for the one request that spent it. Initial states map to initial states and each
step, crashes included, to a step of `Capability` or a stutter.

**PostgreSQL leases** (`PostgresLeases_proofs`; `LeaseAssumption`):
`LeasesLapse`, `AnswersHaveRoles`, `RolesTracked`, `CleanupSpares`. `LeaseInv`
adds what a request at each statement has computed (its expiry is at most the
longest lease after it began), that table and database agree on it, and that
what a running cleanup has collected was overdue then, and so is still.

**The log** (`TransparencyLog_proofs`; `LogAssumption`): `LogTyped`,
`NumbersAreDistinct`, `AckedAreWritten`, `ChainStaysUnbroken`,
`NumbersAlwaysIncrease`. `LogInv` adds that every call past `Claim` has a number
below the next one, and that a call whose line was written has it in the file.
`LastLine` and `RecoveredTyped` say what recovery finds in any file. `ChainInv`
has three layers: whatever happens, a piece in the file belongs to a call that
has written (`Spent`); without overlap only one call is inside and the readable
pieces are numbered in order below the next number (`Alone`, `Ordered`); if no
append was cut either, lines and newlines take turns (`TakeTurns`) and every line
links to the one before it, the last one being the head (`Linked`). `ReadLine`
and `ChainRead` translate between pieces and the lines that `verify_chain`
reads.

**Macaroons** (`Macaroon_proofs`; `MacaroonAssumption`): `NobodyCanRemove`,
`AddingAlwaysNarrows`, `AcceptedIsAlwaysMet`, `MetIsAlwaysAccepted`, for handles
of any length. `ChainInjective` and `ChainConcat` are the facts about
signatures. `MacInv` adds that a copy is genuine exactly if its signature
verifies, that it then continues its minted caveats, and that every discharge
is bound to the chain of the handle for which it was minted and goes over the
wire with the second in which it ends; `PresentedIs` says that with another
expiry it is still bound so. Keys can be lost and written back, so `KeyInv`
speaks of all keys that were ever made for a record: they are numbered in the
order in which they were made, whatever the record, a store task or an
attenuation under way holds is among them, and a discharge was signed with the
one that its caveat names. The verifier's first match is then the right key,
when there is a match.

**The client** (`Client_proofs`; `ClientAssumption`): `MaterialTakenOnce`,
`PromisedMaterialKept`, `EndedAreForgotten`, `ClientAndBrokerAgree`. `CacheInv`
numbers what is remembered: no two entries and no two requests under way have the
same number, and no entry has the number of a request that took it.
`SessionInv` adds what each task has been through (`TaskInv`): its request is the
one its call makes, for a principal that the broker accepts as well (`Asked`),
and its reply says what the broker's books say (`Answer`); no two replies name
the same handle (`RepliesApart`), and a cache entry is what its handle redeems,
for as long (`CacheSound`).

**Only model-checked.** `Answered`: liveness under fairness is beyond the
prover. `ImplementsTrail`: the mapping filters the file
with `SelectSeq`, and what that recursion returns needs induction. `Threshold`
(`EnoughRedeem`, `NothingElseRedeems`, `FewerSayNothing`): what its sums and
products compute for every polynomial needs induction over them, and the field
laws. `CryptoService`: its scripts are put together by concatenation and
flattening, and cut off by filtering, so that even which step a task is at needs
induction over sequences; `WorkGoesOn` besides speaks of the queues.

## Not modelled

- Cryptographic computation, record and message layout, passwords, connection
  strings: no property here tells their outcomes apart.
- Environment and configuration parsing, averages of the performance monitor,
  the hardware probe, diagnostics, the store's record encryption.
- Start-up of the service, TLS, certificates and RA-TLS evidence: checks of
  one connection at a time, whose outcome is `Identity`'s context.
- The narrowing casts of `rotate` in the gRPC adapter
  (`secret_broker_server_impl.rs:692-701`): `Broker` starts from the narrowed
  values.
- ML-DSA pairs of the sealed key store, which only a diagnostic loads.
