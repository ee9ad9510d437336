-------------------------- MODULE TransparencyLog --------------------------
(***************************************************************************)
(* The transparency log: a file of one JSON line per event, in which every *)
(* event carries a sequence number and the hash of the line before it.     *)
(*                                                                         *)
(* `record' claims a number, copies the in-memory head of the chain, moves *)
(* the head to its own line and leaves the append to a blocking task; no   *)
(* lock spans these steps, and the line and its newline are two writes.    *)
(* A restart recovers number and head from what the file holds.            *)
(*                                                                         *)
(* The file is the sequence of what was written to it: the text of an      *)
(* event (whole or cut short) or a newline.  A hash stands for the line it *)
(* was taken of.                                                           *)
(***************************************************************************)
EXTENDS Naturals, Sequences

CONSTANTS
    Recorders,    \* the calls of `record', one event each
    None,         \* no event
    MaxCrashes,   \* bound on process deaths
    MaxErrors,    \* bound on failing appends
    MaxDrops      \* bound on callers that give up

ASSUME LogAssumption ==
    /\ None \notin Recorders
    /\ {MaxCrashes, MaxErrors, MaxDrops} \subseteq Nat

VARIABLES
    file,        \* what has been written, in order
    sequence,    \* the next sequence number
    prev_hash,   \* the line whose hash is the head of the chain
    pc,          \* where each call of `record' is
    entry,       \* the event that it writes
    waiting,     \* the calls whose caller still waits for the append
    acked,       \* the calls that returned Ok
    up,          \* the process runs
    crashes, errors, drops,
    overlap,     \* history: a call began while another had not ended
    cut          \* history: an append ended half way

logVars == <<file, sequence, prev_hash, pc, entry, waiting, acked, up,
             crashes, errors, drops, overlap, cut>>

Piece == [by : Recorders \cup {None}, whole : BOOLEAN]
Newline == [by |-> None, whole |-> TRUE]
LineOf(r) == [by |-> r, whole |-> TRUE]
TornLineOf(r) == [by |-> r, whole |-> FALSE]

GENESIS_HASH == <<>>

Inside == {"claimed", "linked", "queued", "written"}
Places == {"idle"} \cup Inside \cup {"appended", "failed", "lost"}

(***************************************************************************)
(* An event before `record' fills in its number and link; all else that it *)
(* says is the caller's, and is represented by who the caller is.  `epoch' *)
(* is a history field: how often the process had died.                     *)
(***************************************************************************)
base == [sequence |-> 0, prev_hash |-> GENESIS_HASH, epoch |-> 0]

-----------------------------------------------------------------------------
(***************************************************************************)
(* Reading the file: its lines as index intervals, blank ones left out. A  *)
(* line parses when it is exactly one whole event.                         *)
(***************************************************************************)
IsText(i) == file[i].by # None

Lines ==
    {l \in (DOMAIN file) \X (DOMAIN file) :
        /\ l[1] <= l[2]
        /\ \A i \in l[1]..l[2] : IsText(i)
        /\ l[1] > 1 => ~IsText(l[1] - 1)
        /\ l[2] < Len(file) => ~IsText(l[2] + 1)}

Parses(l) == l[1] = l[2] /\ file[l[1]].whole
EventOf(l) == entry[file[l[1]].by]

Later(l, S) == \A m \in S : m[2] <= l[2]

HashBefore(i) ==
    LET before == {l \in Lines : l[2] < i} IN
    IF before = {}
      THEN GENESIS_HASH
      ELSE LET l == CHOOSE l \in before : Later(l, before)
           IN  SubSeq(file, l[1], l[2])

recovered_hash == HashBefore(Len(file) + 1)

(* Mutant: continues with the number of the last line instead of the next. *)
recovered_sequence_Repeats ==
    LET readable == {l \in Lines : Parses(l)} IN
    IF readable = {}
      THEN 0
      ELSE EventOf(CHOOSE l \in readable : Later(l, readable)).sequence

(***************************************************************************)
(* recover_chain_state: the number after that of the last line that        *)
(* parses, and the hash of the last line whether it parses or not.         *)
(***************************************************************************)
recovered_sequence ==
    LET readable == {l \in Lines : Parses(l)} IN
    IF Lines = {}
      THEN 0
      ELSE 1 + (IF readable = {} THEN 0
                  ELSE EventOf(CHOOSE l \in readable :
                                  Later(l, readable)).sequence)

(***************************************************************************)
(* verify_chain: every line parses and links to the line before it.        *)
(***************************************************************************)
verify_chain ==
    \A l \in Lines :
        Parses(l) /\ EventOf(l).prev_hash = HashBefore(l[1])

-----------------------------------------------------------------------------
Goto(r, from, to) ==
    /\ up
    /\ pc[r] = from
    /\ pc' = [pc EXCEPT ![r] = to]

(* Mutant: the number is read and not advanced.                            *)
Claim_LoadOnly(r) ==
    /\ Goto(r, "idle", "claimed")
    /\ entry' = [entry EXCEPT ![r].sequence = sequence, ![r].epoch = crashes]
    /\ waiting' = waiting \cup {r}
    /\ overlap' = (overlap \/ \E s \in Recorders : pc[s] \in Inside)
    /\ UNCHANGED <<file, sequence, prev_hash, acked, up, crashes, errors,
                   drops, cut>>

Claim(r) ==
    /\ Goto(r, "idle", "claimed")
    /\ entry' = [entry EXCEPT ![r].sequence = sequence, ![r].epoch = crashes]
    /\ sequence' = sequence + 1
    /\ waiting' = waiting \cup {r}
    /\ overlap' = (overlap \/ \E s \in Recorders : pc[s] \in Inside)
    /\ UNCHANGED <<file, prev_hash, acked, up, crashes, errors, drops, cut>>

ReadHead(r) ==
    /\ Goto(r, "claimed", "linked")
    /\ entry' = [entry EXCEPT ![r].prev_hash = prev_hash]
    /\ UNCHANGED <<file, sequence, prev_hash, waiting, acked, up, crashes,
                   errors, drops, overlap, cut>>

(* Mutant: the caller is answered without waiting for the blocking task.   *)
MoveHead_Answers(r) ==
    /\ Goto(r, "linked", "queued")
    /\ prev_hash' = <<LineOf(r)>>
    /\ acked' = acked \cup {r}
    /\ UNCHANGED <<file, sequence, entry, waiting, up, crashes, errors,
                   drops, overlap, cut>>

MoveHead(r) ==
    /\ Goto(r, "linked", "queued")
    /\ prev_hash' = <<LineOf(r)>>
    /\ UNCHANGED <<file, sequence, entry, waiting, acked, up, crashes,
                   errors, drops, overlap, cut>>

(***************************************************************************)
(* The blocking task: two writes and a sync, each of which may fail.       *)
(***************************************************************************)
Error ==
    /\ errors < MaxErrors
    /\ errors' = errors + 1

WriteLine(r) ==
    /\ \/ /\ Goto(r, "queued", "written")
          /\ file' = Append(file, LineOf(r))
          /\ UNCHANGED <<waiting, errors, cut>>
       \/ /\ Goto(r, "queued", "failed")
          /\ Error
          /\ \/ UNCHANGED file
             \/ file' = Append(file, TornLineOf(r))
          /\ waiting' = waiting \ {r}
          /\ cut' = TRUE
    /\ UNCHANGED <<sequence, prev_hash, entry, acked, up, crashes, drops,
                   overlap>>

(* Mutant: an append whose newline failed is tried again from the start.   *)
EndLine_Retries(r) ==
    /\ \/ /\ Goto(r, "written", "appended")
          /\ file' = Append(file, Newline)
          /\ acked' = acked \cup ({r} \cap waiting)
          /\ waiting' = waiting \ {r}
          /\ UNCHANGED <<errors, cut>>
       \/ /\ Goto(r, "written", "queued")
          /\ Error
          /\ cut' = TRUE
          /\ UNCHANGED <<file, acked, waiting>>
    /\ UNCHANGED <<sequence, prev_hash, entry, up, crashes, drops, overlap>>

EndLine(r) ==
    /\ waiting' = waiting \ {r}
    /\ \/ /\ Goto(r, "written", "appended")
          /\ file' = Append(file, Newline)
          /\ acked' = acked \cup ({r} \cap waiting)
          /\ UNCHANGED <<errors, cut>>
       \/ /\ Goto(r, "written", "failed")
          /\ Error
          /\ \/ file' = Append(file, Newline) /\ UNCHANGED cut
             \/ UNCHANGED file /\ cut' = TRUE
          /\ UNCHANGED acked
    /\ UNCHANGED <<sequence, prev_hash, entry, up, crashes, drops, overlap>>

(***************************************************************************)
(* The caller's deadline passes while it waits for the append, which goes  *)
(* on.                                                                     *)
(***************************************************************************)
Drop(r) ==
    /\ up
    /\ r \in waiting
    /\ pc[r] \in {"queued", "written"}
    /\ drops < MaxDrops
    /\ drops' = drops + 1
    /\ waiting' = waiting \ {r}
    /\ UNCHANGED <<file, sequence, prev_hash, pc, entry, acked, up, crashes,
                   errors, overlap, cut>>

(***************************************************************************)
(* The process dies, possibly in the middle of a write.                    *)
(***************************************************************************)
Crash ==
    /\ up
    /\ crashes < MaxCrashes
    /\ crashes' = crashes + 1
    /\ up' = FALSE
    /\ \/ UNCHANGED file
       \/ \E r \in Recorders :
             /\ pc[r] = "queued"
             /\ file' = Append(file, TornLineOf(r))
    /\ pc' = [r \in Recorders |-> IF pc[r] \in Inside THEN "lost" ELSE pc[r]]
    /\ waiting' = {}
    /\ cut' = (cut \/ (file' # <<>> /\ file'[Len(file')] # Newline))
    /\ UNCHANGED <<sequence, prev_hash, entry, acked, errors, drops, overlap>>

(* Mutant: the head is not recovered.                                      *)
Open_Genesis ==
    /\ ~up
    /\ up' = TRUE
    /\ sequence' = recovered_sequence
    /\ prev_hash' = GENESIS_HASH
    /\ UNCHANGED <<file, pc, entry, waiting, acked, crashes, errors, drops,
                   overlap, cut>>

Open ==
    /\ ~up
    /\ up' = TRUE
    /\ sequence' = recovered_sequence
    /\ prev_hash' = recovered_hash
    /\ UNCHANGED <<file, pc, entry, waiting, acked, crashes, errors, drops,
                   overlap, cut>>

Init ==
    /\ file = <<>>
    /\ sequence = 0
    /\ prev_hash = GENESIS_HASH
    /\ pc = [r \in Recorders |-> "idle"]
    /\ entry = [r \in Recorders |-> base]
    /\ waiting = {}
    /\ acked = {}
    /\ up = TRUE
    /\ crashes = 0 /\ errors = 0 /\ drops = 0
    /\ overlap = FALSE
    /\ cut = FALSE

Record(r) == ReadHead(r) \/ MoveHead(r) \/ WriteLine(r) \/ EndLine(r)

(***************************************************************************)
(* Every call has been made and has ended.                                 *)
(***************************************************************************)
Quiet ==
    /\ \A r \in Recorders : pc[r] \notin Inside \cup {"idle"}
    /\ UNCHANGED logVars

Next ==
    \/ \E r \in Recorders : Claim(r) \/ Record(r) \/ Drop(r)
    \/ Crash
    \/ Open
    \/ Quiet

Spec == Init /\ [][Next]_logVars

-----------------------------------------------------------------------------
TypeOK ==
    /\ file \in Seq(Piece)
    /\ sequence \in Nat
    /\ prev_hash \in Seq(Piece)
    /\ pc \in [Recorders -> Places]
    /\ entry \in [Recorders ->
                    [sequence : Nat, prev_hash : Seq(Piece), epoch : Nat]]
    /\ waiting \subseteq Recorders
    /\ acked \subseteq Recorders
    /\ {up, overlap, cut} \subseteq BOOLEAN
    /\ crashes \in 0..MaxCrashes
    /\ errors \in 0..MaxErrors
    /\ drops \in 0..MaxDrops

(***************************************************************************)
(* Exactly what keeps the chain (transparency.rs:158-196 and 79-109): if   *)
(* no two calls overlapped and no append ended half way, then whenever no  *)
(* call is inside, the file verifies and its last line is the head that    *)
(* the next event links to, through any number of restarts, failed syncs   *)
(* and callers that gave up.                                               *)
(***************************************************************************)
ChainUnbroken ==
    /\ ~overlap
    /\ ~cut
    /\ up
    /\ \A r \in Recorders : pc[r] \notin Inside
    => verify_chain /\ prev_hash = recovered_hash

(***************************************************************************)
(* The lines that parse have increasing sequence numbers, in the order of  *)
(* the file, as long as calls do not overlap: torn lines, two events glued *)
(* into one line and failed appends included.  Recovery                    *)
(* (transparency.rs:79-109) must therefore never take a number that a      *)
(* readable line already has.                                              *)
(***************************************************************************)
NumbersIncrease ==
    ~overlap =>
      \A l, m \in Lines :
         Parses(l) /\ Parses(m) /\ l[2] < m[1]
           => EventOf(l).sequence < EventOf(m).sequence

(***************************************************************************)
(* Whatever overlaps, no two calls in one life of the process get the same *)
(* number (the fetch_add of transparency.rs:160).                          *)
(***************************************************************************)
NumbersDistinct ==
    \A r, s \in Recorders :
        /\ pc[r] # "idle"
        /\ pc[s] # "idle"
        /\ entry[r].epoch = entry[s].epoch
        /\ entry[r].sequence = entry[s].sequence
        => r = s

(***************************************************************************)
(* A call that returned Ok has its whole event in the file                 *)
(* (transparency.rs:176-194: the append is awaited), crashes included.     *)
(***************************************************************************)
AckedWritten == \A r \in acked : \E i \in DOMAIN file : file[i] = LineOf(r)

-----------------------------------------------------------------------------
(***************************************************************************)
(* The order in which whole events reached the file.                       *)
(***************************************************************************)
IsEvent(p) == p.by # None /\ p.whole

Events ==
    LET written == SelectSeq(file, IsEvent)
    IN  [i \in DOMAIN written |-> written[i].by]

Trail == INSTANCE AuditTrail WITH trail <- Events

(***************************************************************************)
(* The log is an audit trail: under every overlap, error and crash, events *)
(* are only added at its end, none twice, and none is acknowledged before. *)
(***************************************************************************)
ImplementsTrail == Trail!TrailSpec
=============================================================================
