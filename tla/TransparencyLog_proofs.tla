---------------------- MODULE TransparencyLog_proofs ----------------------
(***************************************************************************)
(* What the transparency log guarantees for any number of recorders,       *)
(* crashes, failing appends and callers that give up.                      *)
(***************************************************************************)
EXTENDS TransparencyLog, SequenceTheorems, WellFoundedInduction, TLAPS

-----------------------------------------------------------------------------
(***************************************************************************)
(* Recovery (transparency.rs:79-109) finds a last line, so that it yields  *)
(* a number and a hash.                                                    *)
(***************************************************************************)
LEMMA LeastElement ==
    ASSUME NEW T \in SUBSET Nat, T # {}
    PROVE  \E x \in T : \A y \in T : x <= y
<1>1. \E x \in T : \A y \in T : ~ (<<y, x>> \in OpToRel(<, Nat))
  BY NatLessThanWellFounded, WFMin, ZenonT(30)
<1>2. \A x, y \in Nat : ~ (<<y, x>> \in OpToRel(<, Nat)) => x <= y
  BY DEF OpToRel
<1> QED
  BY <1>1, <1>2, ZenonT(30)

LEMMA LastLine ==
    ASSUME file \in Seq(Piece), NEW S \in SUBSET Lines, S # {}
    PROVE  \E l \in S : Later(l, S)
<1> DEFINE T == {Len(file) - l[2] : l \in S}
<1>1. \A l \in S : l[2] \in 1..Len(file)
  BY DEF Lines
<1>2. T \in SUBSET Nat /\ T # {}
  BY <1>1
<1>3. PICK x \in T : \A y \in T : x <= y
  BY <1>2, LeastElement, ZenonT(30)
<1>4. PICK l \in S : x = Len(file) - l[2]
  BY <1>3, Zenon
<1>5. \A m \in S : m[2] <= l[2]
  <2> TAKE m \in S
  <2>1. Len(file) - m[2] \in T
    BY Zenon
  <2>2. Len(file) \in Nat /\ m[2] \in Nat /\ l[2] \in Nat
    BY <1>1
  <2>3. x <= Len(file) - m[2]
    BY <2>1, <1>3, Zenon
  <2> HIDE DEF T
  <2> QED
    BY <2>2, <2>3, <1>4
<1> QED
  BY <1>5, Zenon DEF Later

LEMMA RecoveredTyped ==
    ASSUME TypeOK
    PROVE  recovered_sequence \in Nat /\ recovered_hash \in Seq(Piece)
<1>1. file \in Seq(Piece) /\ GENESIS_HASH \in Seq(Piece)
  BY DEF TypeOK, GENESIS_HASH
<1>2. \A l \in Lines : IsText(l[1]) /\ l[1] \in DOMAIN file /\ l[2] \in DOMAIN file
  BY <1>1 DEF Lines
<1>3. recovered_sequence \in Nat
  <2> DEFINE readable == {l \in Lines : Parses(l)}
             last == CHOOSE l \in readable : Later(l, readable)
  <2>1. CASE readable = {}
    BY <2>1 DEF recovered_sequence
  <2>2. CASE readable # {}
    <3>1. readable \in SUBSET Lines
      BY Zenon
    <3>2. \E l \in readable : Later(l, readable)
      BY <3>1, <2>2, <1>1, LastLine, ZenonT(30)
    <3>3. last \in readable
      BY <3>2, Zenon
    <3> HIDE DEF last
    <3>4. file[last[1]].by \in Recorders
      <4>1. IsText(last[1]) /\ file[last[1]] \in Piece
        BY <3>3, <1>1, <1>2
      <4> QED
        BY <4>1, Zenon DEF IsText, Piece
    <3>5. EventOf(last).sequence \in Nat
      BY <3>4, Zenon DEF EventOf, TypeOK
    <3> QED
      BY <3>5 DEF recovered_sequence, last
  <2> QED
    BY <2>1, <2>2, Zenon
<1>4. recovered_hash \in Seq(Piece)
  <2> DEFINE before == {l \in Lines : l[2] < Len(file) + 1}
             last == CHOOSE l \in before : Later(l, before)
  <2>1. CASE before = {}
    BY <2>1, <1>1, Zenon DEF recovered_hash, HashBefore
  <2>2. CASE before # {}
    <3>1. before \in SUBSET Lines
      BY Zenon
    <3>2. \E l \in before : Later(l, before)
      BY <3>1, <2>2, <1>1, LastLine, ZenonT(30)
    <3>3. last[1] \in DOMAIN file /\ last[2] \in DOMAIN file
      BY <3>2, <1>2, ZenonT(30)
    <3>4. \A i \in last[1]..last[2] : file[i] \in Piece
      BY <3>3, <1>1
    <3>5. SubSeq(file, last[1], last[2]) \in Seq(Piece)
      <4> HIDE DEF last
      <4>1. last[1] \in Int /\ last[2] \in Int
        BY <3>3, <1>1
      <4> QED
        BY <4>1, <3>4, SubSeqProperties, Zenon
    <3> QED
      BY <3>5, <2>2, ZenonT(30) DEF recovered_hash, HashBefore
  <2> QED
    BY <2>1, <2>2, Zenon
<1> QED
  BY <1>3, <1>4, Zenon

-----------------------------------------------------------------------------
(***************************************************************************)
(* The inductive invariant: a number given out in this life of the process *)
(* is below the counter, and one of an earlier life is no concern; a call  *)
(* whose line is written has it in the file.                               *)
(***************************************************************************)
Numbered(r) ==
    pc[r] # "idle" =>
        /\ entry[r].epoch <= crashes
        /\ entry[r].epoch = crashes => up /\ entry[r].sequence < sequence

InFile(r) == \E i \in DOMAIN file : file[i] = LineOf(r)

LogInv ==
    /\ TypeOK
    /\ \A r \in Recorders : Numbered(r)
    /\ NumbersDistinct
    /\ \A r \in Recorders : pc[r] = "written" \/ r \in acked => InFile(r)

LEMMA LogInit == Init => LogInv
<1> SUFFICES ASSUME Init PROVE LogInv
  BY Zenon
<1>1. <<>> \in Seq(Piece)
  OBVIOUS
<1>2. MaxCrashes \in Nat /\ MaxErrors \in Nat /\ MaxDrops \in Nat
  BY LogAssumption, Zenon
<1>3. /\ file \in Seq(Piece) /\ prev_hash \in Seq(Piece)
      /\ sequence \in Nat
      /\ crashes \in 0..MaxCrashes /\ errors \in 0..MaxErrors
      /\ drops \in 0..MaxDrops
  BY <1>1, <1>2 DEF Init, GENESIS_HASH
<1>4. base \in [sequence : Nat, prev_hash : Seq(Piece), epoch : Nat]
  BY <1>1, Zenon DEF base, GENESIS_HASH
<1>5. TypeOK
  BY <1>3, <1>4, ZenonT(30) DEF Init, TypeOK, Places
<1> QED
  BY <1>5, Zenon DEF Init, LogInv, Numbered, NumbersDistinct

(***************************************************************************)
(* Appending to the file keeps the lines that it has.                      *)
(***************************************************************************)
LEMMA Appended ==
    ASSUME file \in Seq(Piece), NEW p \in Piece, file' = Append(file, p)
    PROVE  /\ file' \in Seq(Piece)
           /\ \A r \in Recorders : InFile(r) => InFile(r)'
           /\ \E i \in DOMAIN file' : file'[i] = p
<1>1. /\ file' \in Seq(Piece)
      /\ Len(file') = Len(file) + 1
      /\ \A i \in 1..Len(file) : file'[i] = file[i]
      /\ file'[Len(file) + 1] = p
  BY AppendProperties
<1>2. DOMAIN file = 1..Len(file) /\ DOMAIN file' = 1..(Len(file) + 1)
      /\ Len(file) \in Nat
  BY <1>1
<1>3. ASSUME NEW r \in Recorders, InFile(r)
      PROVE  InFile(r)'
  <2>1. PICK i \in DOMAIN file : file[i] = LineOf(r)
    BY <1>3, Zenon DEF InFile
  <2>2. i \in DOMAIN file' /\ file'[i] = LineOf(r)
    BY <2>1, <1>1, <1>2
  <2> QED
    BY <2>2, Zenon DEF InFile, LineOf
<1> QED
  BY <1>1, <1>2, <1>3

LEMMA PiecesTyped ==
    /\ Newline \in Piece
    /\ \A r \in Recorders : LineOf(r) \in Piece /\ TornLineOf(r) \in Piece
BY Zenon DEF Newline, LineOf, TornLineOf, Piece

-----------------------------------------------------------------------------
Call(r) == Claim(r) \/ Record(r) \/ Drop(r)

(***************************************************************************)
(* What a step of an open call may do to the file and to the call: it adds *)
(* one piece at most, and leaves numbers alone.                            *)
(***************************************************************************)
LEMMA FileStep ==
    ASSUME TypeOK, [Next]_logVars
    PROVE  /\ file' \in Seq(Piece)
           /\ \A r \in Recorders : InFile(r) => InFile(r)'
<1> USE PiecesTyped
<1>0. file \in Seq(Piece)
  BY Zenon DEF TypeOK
<1>1. UNCHANGED file \/ \E p \in Piece : file' = Append(file, p)
  <2>1. ASSUME NEW r \in Recorders, Call(r)
        PROVE  UNCHANGED file \/ \E p \in Piece : file' = Append(file, p)
    BY <2>1, Zenon
       DEF Call, Claim, Record, ReadHead, MoveHead, WriteLine, EndLine, Drop
  <2>2. Crash => UNCHANGED file \/ \E p \in Piece : file' = Append(file, p)
    BY Zenon DEF Crash
  <2>3. Open \/ Quiet \/ UNCHANGED logVars => UNCHANGED file
    BY Zenon DEF Open, Quiet, logVars
  <2> QED
    BY <2>1, <2>2, <2>3, Zenon DEF Next, Call
<1>2. CASE UNCHANGED file
  BY <1>0, <1>2, Zenon DEF InFile, LineOf
<1>3. CASE \E p \in Piece : file' = Append(file, p)
  BY <1>0, <1>3, Appended, Zenon
<1> QED
  BY <1>1, <1>2, <1>3, Zenon

LEMMA TypeStep == TypeOK /\ [Next]_logVars => TypeOK'
<1> SUFFICES ASSUME TypeOK, [Next]_logVars PROVE TypeOK'
  BY Zenon
<1>0. file' \in Seq(Piece)
  BY FileStep, Zenon
<1>1. MaxCrashes \in Nat /\ MaxErrors \in Nat /\ MaxDrops \in Nat
  BY LogAssumption, Zenon
<1> DEFINE Data ==
      /\ sequence \in Nat
      /\ prev_hash \in Seq(Piece)
      /\ pc \in [Recorders -> Places]
      /\ entry \in [Recorders ->
                       [sequence : Nat, prev_hash : Seq(Piece), epoch : Nat]]
      /\ waiting \subseteq Recorders
      /\ acked \subseteq Recorders
      /\ crashes \in 0..MaxCrashes
      /\ errors \in 0..MaxErrors
      /\ drops \in 0..MaxDrops
<1>a. Data
  BY Zenon DEF TypeOK
<1>b. {up, overlap, cut}' \subseteq BOOLEAN
  <2>1. up \in BOOLEAN /\ overlap \in BOOLEAN /\ cut \in BOOLEAN
    BY Zenon DEF TypeOK
  <2>2. ASSUME NEW r \in Recorders, Call(r)
        PROVE  up' \in BOOLEAN /\ overlap' \in BOOLEAN /\ cut' \in BOOLEAN
    BY <2>1, <2>2, Zenon
       DEF Call, Claim, Record, ReadHead, MoveHead, WriteLine, EndLine, Drop
  <2>3. Crash => up' \in BOOLEAN /\ overlap' \in BOOLEAN /\ cut' \in BOOLEAN
    BY <2>1, Zenon DEF Crash
  <2>4. Open \/ Quiet \/ UNCHANGED logVars
          => up' \in BOOLEAN /\ overlap' \in BOOLEAN /\ cut' \in BOOLEAN
    BY <2>1, Zenon DEF Open, Quiet, logVars
  <2>5. up' \in BOOLEAN /\ overlap' \in BOOLEAN /\ cut' \in BOOLEAN
    BY <2>2, <2>3, <2>4, Zenon DEF Next, Call
  <2> QED
    BY <2>5, Zenon
<1>2. ASSUME NEW r \in Recorders, Claim(r)
      PROVE  Data'
  <2>1. pc' \in [Recorders -> Places]
    BY <1>a, <1>2, Zenon DEF Claim, Goto, Places, Inside
  <2>2. crashes \in Nat /\ sequence' \in Nat
    BY <1>a, <1>1, <1>2 DEF Claim
  <2>3. entry' = [entry EXCEPT ![r].sequence = sequence,
                               ![r].epoch = crashes]
    BY <1>2, Zenon DEF Claim
  <2>4. entry' \in [Recorders ->
                      [sequence : Nat, prev_hash : Seq(Piece), epoch : Nat]]
    BY <1>a, <2>2, <2>3, ZenonT(30)
  <2> QED
    BY <1>a, <1>2, <2>1, <2>2, <2>4, Zenon DEF Claim
<1>3. ASSUME NEW r \in Recorders, ReadHead(r)
      PROVE  Data'
  BY <1>a, <1>3, ZenonT(30) DEF ReadHead, Goto, Places, Inside
<1>4. ASSUME NEW r \in Recorders, MoveHead(r)
      PROVE  Data'
  <2>1. <<LineOf(r)>> \in Seq(Piece)
    BY PiecesTyped
  <2> QED
    BY <1>a, <1>4, <2>1, Zenon DEF MoveHead, Goto, Places, Inside
<1>5. ASSUME NEW r \in Recorders, WriteLine(r)
      PROVE  Data'
  <2>1. pc' \in [Recorders -> Places]
    BY <1>a, <1>5, ZenonT(30) DEF WriteLine, Goto, Places, Inside
  <2>2. errors' \in 0..MaxErrors /\ waiting' \subseteq Recorders
    BY <1>a, <1>1, <1>5 DEF WriteLine, Error
  <2> QED
    BY <1>a, <1>5, <2>1, <2>2, Zenon DEF WriteLine
<1>6. ASSUME NEW r \in Recorders, EndLine(r)
      PROVE  Data'
  <2>1. pc' \in [Recorders -> Places]
    BY <1>a, <1>6, ZenonT(30) DEF EndLine, Goto, Places, Inside
  <2>2. errors' \in 0..MaxErrors
    BY <1>a, <1>1, <1>6 DEF EndLine, Error
  <2>3. waiting' \subseteq Recorders /\ acked' \subseteq Recorders
    BY <1>a, <1>6, Zenon DEF EndLine
  <2> QED
    BY <1>a, <1>6, <2>1, <2>2, <2>3, Zenon DEF EndLine
<1>7. ASSUME NEW r \in Recorders, Drop(r)
      PROVE  Data'
  BY <1>a, <1>1, <1>7 DEF Drop
<1>8. ASSUME Crash PROVE Data'
  BY <1>a, <1>1, <1>8 DEF Crash, Places, Inside
<1>9. ASSUME Open PROVE Data'
  BY <1>a, <1>9, RecoveredTyped, Zenon DEF Open
<1>10. ASSUME Quiet \/ UNCHANGED logVars PROVE Data'
  BY <1>a, <1>10, Zenon DEF Quiet, logVars
<1>11. Data'
  <2> HIDE DEF Data
  <2> QED
    BY <1>2, <1>3, <1>4, <1>5, <1>6, <1>7, <1>8, <1>9, <1>10, Zenon
       DEF Next, Record
<1> QED
  BY <1>0, <1>b, <1>11, Zenon DEF TypeOK

-----------------------------------------------------------------------------
(***************************************************************************)
(* The numbers: only Claim gives one out, and it takes the counter's.      *)
(***************************************************************************)
NumbersInv == (\A r \in Recorders : Numbered(r)) /\ NumbersDistinct

LEMMA NumbersKept ==
    ASSUME TypeOK, NumbersInv,
           UNCHANGED <<sequence, crashes, up>>,
           \A r \in Recorders :
               /\ pc[r] = "idle" <=> pc'[r] = "idle"
               /\ entry'[r].sequence = entry[r].sequence
               /\ entry'[r].epoch = entry[r].epoch
    PROVE  NumbersInv'
BY Zenon DEF NumbersInv, Numbered, NumbersDistinct

LEMMA NumbersStep == TypeOK /\ NumbersInv /\ [Next]_logVars => NumbersInv'
<1> SUFFICES ASSUME TypeOK, NumbersInv, [Next]_logVars
             PROVE  NumbersInv'
  BY Zenon
<1>1. /\ pc \in [Recorders -> Places] /\ sequence \in Nat /\ crashes \in Nat
      /\ entry \in [Recorders ->
                      [sequence : Nat, prev_hash : Seq(Piece), epoch : Nat]]
  BY LogAssumption DEF TypeOK
<1>2. ASSUME NEW r \in Recorders, Claim(r)
      PROVE  NumbersInv'
  <2>1. /\ sequence' = sequence + 1 /\ UNCHANGED <<crashes, up>> /\ up
        /\ pc' = [pc EXCEPT ![r] = "claimed"]
        /\ entry' = [entry EXCEPT ![r].sequence = sequence,
                                  ![r].epoch = crashes]
    BY <1>2, Zenon DEF Claim, Goto
  <2>2. /\ entry'[r].sequence = sequence /\ entry'[r].epoch = crashes
        /\ \A s \in Recorders \ {r} : entry'[s] = entry[s] /\ pc'[s] = pc[s]
    BY <1>1, <2>1, Zenon
  <2>3. \A s \in Recorders : Numbered(s)'
    BY <1>1, <2>1, <2>2 DEF NumbersInv, Numbered
  <2>4. \A s \in Recorders \ {r} :
           ~ (/\ pc'[s] # "idle"
              /\ entry'[s].epoch = crashes
              /\ entry'[s].sequence = sequence)
    BY <1>1, <2>2 DEF NumbersInv, Numbered
  <2>5. NumbersDistinct'
    BY <2>2, <2>4 DEF NumbersInv, NumbersDistinct
  <2> QED
    BY <2>3, <2>5, Zenon DEF NumbersInv
<1>3. ASSUME NEW r \in Recorders, Record(r) \/ Drop(r)
      PROVE  NumbersInv'
  <2>1. UNCHANGED <<sequence, crashes, up>>
    BY <1>3, Zenon DEF Record, ReadHead, MoveHead, WriteLine, EndLine, Drop
  <2>2. \A s \in Recorders : pc[s] = "idle" <=> pc'[s] = "idle"
    BY <1>1, <1>3, Zenon
       DEF Record, ReadHead, MoveHead, WriteLine, EndLine, Drop, Goto
  <2>3. UNCHANGED entry \/ entry' = [entry EXCEPT ![r].prev_hash = prev_hash]
    BY <1>3, Zenon DEF Record, ReadHead, MoveHead, WriteLine, EndLine, Drop
  <2>4. \A s \in Recorders : /\ entry'[s].sequence = entry[s].sequence
                             /\ entry'[s].epoch = entry[s].epoch
    BY <1>1, <2>3, ZenonT(30)
  <2> QED
    BY <2>1, <2>2, <2>4, NumbersKept, Zenon
<1>4. CASE Crash
  <2>1. /\ crashes' = crashes + 1 /\ UNCHANGED entry
        /\ \A r \in Recorders : pc'[r] # "idle" => pc[r] # "idle"
    BY <1>1, <1>4, Zenon DEF Crash, Inside
  <2> QED
    BY <1>1, <2>1 DEF NumbersInv, Numbered, NumbersDistinct
<1>5. CASE Open
  <2>1. UNCHANGED <<crashes, entry, pc>> /\ ~up
    BY <1>5, Zenon DEF Open
  <2> QED
    BY <1>1, <2>1, Zenon DEF NumbersInv, Numbered, NumbersDistinct
<1>6. CASE Quiet \/ UNCHANGED logVars
  BY <1>6, NumbersKept, Zenon DEF Quiet, logVars
<1> QED
  BY <1>2, <1>3, <1>4, <1>5, <1>6, Zenon DEF Next

-----------------------------------------------------------------------------
(***************************************************************************)
(* The file: a call is answered out of "written" only.                     *)
(***************************************************************************)
Kept(r) == pc[r] = "written" \/ r \in acked => InFile(r)

LEMMA FileKept ==
    ASSUME TypeOK, \A r \in Recorders : Kept(r), [Next]_logVars
    PROVE  \A r \in Recorders : Kept(r)'
<1>1. pc \in [Recorders -> Places]
  BY Zenon DEF TypeOK
<1>2. \A r \in Recorders : InFile(r) => InFile(r)'
  BY FileStep, Zenon
<1>3. ASSUME NEW r \in Recorders, WriteLine(r), NEW s \in Recorders
      PROVE  Kept(s)'
  <2>1. CASE s = r /\ pc'[r] = "written"
    <3>1. file' = Append(file, LineOf(r)) /\ file \in Seq(Piece)
      BY <1>1, <1>3, <2>1, Zenon DEF WriteLine, Goto, TypeOK
    <3>2. \E i \in DOMAIN file' : file'[i] = LineOf(r)
      BY <3>1, PiecesTyped, Appended, Zenon
    <3> QED
      BY <3>2, <2>1, Zenon DEF Kept, InFile, LineOf
  <2>2. CASE ~(s = r /\ pc'[r] = "written")
    <3>1. (pc'[s] = "written" => pc[s] = "written") /\ UNCHANGED acked
      BY <1>1, <1>3, <2>2, Zenon DEF WriteLine, Goto
    <3> QED
      BY <3>1, <1>2, Zenon DEF Kept
  <2> QED
    BY <2>1, <2>2, Zenon
<1>4. ASSUME NEW r \in Recorders,
             Claim(r) \/ ReadHead(r) \/ MoveHead(r) \/ EndLine(r) \/ Drop(r),
             NEW s \in Recorders
      PROVE  Kept(s)'
  <2>1. pc'[s] = "written" => pc[s] = "written"
    BY <1>1, <1>4, Zenon DEF Claim, ReadHead, MoveHead, EndLine, Drop, Goto
  <2>2. s \in acked' => s \in acked \/ pc[s] = "written"
    BY <1>1, <1>4, Zenon DEF Claim, ReadHead, MoveHead, EndLine, Drop, Goto
  <2> QED
    BY <2>1, <2>2, <1>2, Zenon DEF Kept
<1>5. ASSUME Crash \/ Open \/ Quiet \/ UNCHANGED logVars, NEW s \in Recorders
      PROVE  Kept(s)'
  <2>1. (pc'[s] = "written" => pc[s] = "written") /\ UNCHANGED acked
    BY <1>1, <1>5, Zenon DEF Crash, Open, Quiet, logVars, Inside
  <2> QED
    BY <2>1, <1>2, Zenon DEF Kept
<1> QED
  BY <1>3, <1>4, <1>5, Zenon DEF Next, Record

-----------------------------------------------------------------------------
(***************************************************************************)
(* LogInv is inductive.                                                    *)
(***************************************************************************)
LEMMA LogInvariant == Spec => []LogInv
<1>1. LogInv /\ [Next]_logVars => LogInv'
  BY TypeStep, NumbersStep, FileKept, Zenon DEF LogInv, NumbersInv, Kept
<1> QED
  BY <1>1, LogInit, PTL DEF Spec

(***************************************************************************)
(* Every value of every variable keeps its type: the numbers and the head  *)
(* that recovery (transparency.rs:79-109) reads from a file in any state   *)
(* included.                                                               *)
(***************************************************************************)
THEOREM LogTyped == Spec => []TypeOK
BY LogInvariant, PTL DEF LogInv

(***************************************************************************)
(* For every number of callers, crashes, errors and drops: no two calls of *)
(* `record' in one life of the process get the same sequence number        *)
(* (transparency.rs:160).                                                  *)
(***************************************************************************)
THEOREM NumbersAreDistinct == Spec => []NumbersDistinct
BY LogInvariant, PTL DEF LogInv

(***************************************************************************)
(* For every number of callers, crashes, errors and drops: a call that     *)
(* returned Ok has its whole event in the file (transparency.rs:176-194).  *)
(***************************************************************************)
THEOREM AckedAreWritten == Spec => []AckedWritten
<1>1. LogInv => AckedWritten
  BY ZenonT(30) DEF LogInv, TypeOK, AckedWritten, InFile
<1> QED
  BY <1>1, LogInvariant, PTL

-----------------------------------------------------------------------------
(***************************************************************************)
(* Where the file can be read: the positions that are a line of their own. *)
(***************************************************************************)
ReadableAt(i) ==
    /\ i \in DOMAIN file
    /\ IsText(i) /\ file[i].whole
    /\ i > 1 => ~IsText(i - 1)
    /\ i < Len(file) => ~IsText(i + 1)

NumberAt(i) == entry[file[i].by].sequence

(***************************************************************************)
(* Nobody whose event is in the file, whole or torn, is still to write it. *)
(***************************************************************************)
Before == {"claimed", "linked", "queued"}

Spent ==
    \A i \in DOMAIN file : IsText(i) =>
        pc[file[i].by] \in {"written", "appended", "failed", "lost"}

(***************************************************************************)
(* Without overlap: one call at a time is inside, and none in a process    *)
(* that is down; the numbers that can be read increase and are below the   *)
(* counter and below the number of a call that is still to write.          *)
(***************************************************************************)
Alone ==
    /\ \A r, s \in Recorders : pc[r] \in Inside /\ pc[s] \in Inside => r = s
    /\ ~up => \A r \in Recorders : pc[r] \notin Inside

Ordered ==
    /\ \A i, j \in DOMAIN file :
          ReadableAt(i) /\ ReadableAt(j) /\ i < j => NumberAt(i) < NumberAt(j)
    /\ up => \A i \in DOMAIN file : ReadableAt(i) => NumberAt(i) < sequence
    /\ \A r \in Recorders : pc[r] \in Before =>
          /\ entry[r].sequence < sequence
          /\ \A i \in DOMAIN file :
                ReadableAt(i) => NumberAt(i) < entry[r].sequence

(***************************************************************************)
(* Without overlap and cut: whole events and newlines take turns, every    *)
(* event links to the one before it, and the head is the last event or the *)
(* one that is about to be written.                                        *)
(***************************************************************************)
TakeTurns ==
    /\ \A i \in DOMAIN file :
          /\ file[i].whole
          /\ i = 1 => IsText(i)
          /\ i > 1 => (IsText(i) <=> ~IsText(i - 1))
    /\ \A r \in Recorders : pc[r] = "written" =>
          file # <<>> /\ file[Len(file)] = LineOf(r)
    /\ (\A r \in Recorders : pc[r] # "written") =>
          file = <<>> \/ ~IsText(Len(file))

Prior(i) == IF i = 1 THEN GENESIS_HASH ELSE <<file[i - 2]>>

EndHash ==
    IF file = <<>> THEN GENESIS_HASH
    ELSE IF IsText(Len(file)) THEN <<file[Len(file)]>>
    ELSE <<file[Len(file) - 1]>>

Linked ==
    /\ \A i \in DOMAIN file :
          IsText(i) => entry[file[i].by].prev_hash = Prior(i)
    /\ \A r \in Recorders :
          /\ pc[r] \in {"linked", "queued"} => entry[r].prev_hash = EndHash
          /\ pc[r] \in {"queued", "written"} => prev_hash = <<LineOf(r)>>
    /\ up /\ (\A r \in Recorders : pc[r] \notin {"queued", "written"}) =>
          prev_hash = EndHash

ChainInv ==
    /\ Spent
    /\ ~overlap => Alone /\ Ordered
    /\ ~overlap /\ ~cut => TakeTurns /\ Linked

-----------------------------------------------------------------------------
(***************************************************************************)
(* Reading the file.                                                       *)
(***************************************************************************)
LEMMA TextTyped ==
    ASSUME TypeOK, NEW i \in DOMAIN file
    PROVE  /\ file[i] \in Piece
           /\ IsText(i) => file[i].by \in Recorders
           /\ DOMAIN file = 1..Len(file) /\ Len(file) \in Nat
<1>1. file \in Seq(Piece)
  BY Zenon DEF TypeOK
<1>2. file[i] \in Piece
  BY <1>1
<1> QED
  BY <1>1, <1>2 DEF IsText, Piece

LEMMA LineRead ==
    ASSUME TypeOK, NEW l \in Lines
    PROVE  /\ l[1] \in DOMAIN file /\ l[2] \in DOMAIN file /\ l[1] <= l[2]
           /\ IsText(l[1]) /\ IsText(l[2])
           /\ Parses(l) => ReadableAt(l[1]) /\ l[2] = l[1]
<1>1. file \in Seq(Piece)
  BY Zenon DEF TypeOK
<1>2. l[1] \in DOMAIN file /\ l[2] \in DOMAIN file /\ l[1] <= l[2]
  BY Zenon DEF Lines
<1>3. l[1] \in Nat /\ l[2] \in Nat
  BY <1>1, <1>2
<1>4. \A i \in l[1]..l[2] : IsText(i)
  BY Zenon DEF Lines
<1>5. IsText(l[1]) /\ IsText(l[2])
  BY <1>2, <1>3, <1>4
<1> QED
  BY <1>2, <1>3, <1>5, Zenon DEF Parses, ReadableAt, Lines

LEMMA ReadLine ==
    ASSUME TypeOK, NEW i, ReadableAt(i)
    PROVE  <<i, i>> \in Lines /\ Parses(<<i, i>>)
<1>1. file \in Seq(Piece) /\ i \in DOMAIN file
  BY Zenon DEF TypeOK, ReadableAt
<1>2. i \in Nat
  BY <1>1
<1>3. \A j \in i..i : j = i
  BY <1>2
<1> QED
  BY <1>1, <1>2, <1>3 DEF Lines, Parses, ReadableAt

(***************************************************************************)
(* recover_chain_state continues above every number that can be read.      *)
(***************************************************************************)
LEMMA RecoveredAbove ==
    ASSUME TypeOK, Ordered, NEW i \in DOMAIN file, ReadableAt(i)
    PROVE  NumberAt(i) < recovered_sequence
<1> DEFINE readable == {l \in Lines : Parses(l)}
           last == CHOOSE l \in readable : Later(l, readable)
<1>1. file \in Seq(Piece)
  BY Zenon DEF TypeOK
<1>2. <<i, i>> \in readable
  BY ReadLine, Zenon
<1>3. readable \in SUBSET Lines /\ readable # {}
  BY <1>2, Zenon
<1>4. last \in readable /\ Later(last, readable)
  <2>1. \E l \in readable : Later(l, readable)
    BY <1>1, <1>3, LastLine, ZenonT(30)
  <2> QED
    BY <2>1, Zenon
<1>5. recovered_sequence = 1 + EventOf(last).sequence
  BY <1>3, Zenon DEF recovered_sequence
<1> HIDE DEF last
<1>6. /\ last[1] \in DOMAIN file /\ ReadableAt(last[1]) /\ last[2] = last[1]
      /\ i <= last[1]
  BY <1>2, <1>4, LineRead, Zenon DEF Later
<1>7. EventOf(last).sequence = NumberAt(last[1])
  BY Zenon DEF EventOf, NumberAt
<1>8. NumberAt(i) \in Nat /\ NumberAt(last[1]) \in Nat
  <2>1. file[i].by \in Recorders /\ file[last[1]].by \in Recorders
    BY <1>6, TextTyped, Zenon DEF ReadableAt
  <2> QED
    BY <2>1, Zenon DEF NumberAt, TypeOK
<1>9. i = last[1] \/ NumberAt(i) < NumberAt(last[1])
  <2>1. i \in Nat /\ last[1] \in Nat
    BY <1>1, <1>6
  <2> QED
    BY <1>6, <2>1 DEF Ordered
<1> QED
  BY <1>5, <1>7, <1>8, <1>9

(***************************************************************************)
(* Where events and newlines take turns, every line is one event, and the  *)
(* hash before a place is that of the nearest event.                       *)
(***************************************************************************)
LEMMA TurnLines ==
    ASSUME TypeOK, TakeTurns
    PROVE  /\ \A l \in Lines : l[1] = l[2] /\ Parses(l)
           /\ \A i \in DOMAIN file : IsText(i) => <<i, i>> \in Lines
<1>1. file \in Seq(Piece)
  BY Zenon DEF TypeOK
<1>2. ASSUME NEW l \in Lines PROVE l[1] = l[2] /\ Parses(l)
  <2>1. /\ l[1] \in 1..Len(file) /\ l[2] \in 1..Len(file) /\ l[1] <= l[2]
        /\ Len(file) \in Nat
    BY <1>1, LineRead
  <2>2. \A i \in l[1]..l[2] : IsText(i)
    BY Zenon DEF Lines
  <2>3. ~(l[1] < l[2])
    <3> SUFFICES ASSUME l[1] < l[2] PROVE FALSE
      BY Zenon
    <3>1. l[1] + 1 \in l[1]..l[2] /\ l[1] \in l[1]..l[2]
      BY <2>1
    <3>2. l[1] + 1 \in DOMAIN file /\ l[1] + 1 > 1 /\ (l[1] + 1) - 1 = l[1]
      BY <1>1, <2>1
    <3> QED
      BY <2>2, <3>1, <3>2, Zenon DEF TakeTurns
  <2>4. l[1] = l[2]
    BY <2>1, <2>3
  <2>5. file[l[1]].whole
    BY <1>1, <2>1 DEF TakeTurns
  <2> QED
    BY <2>4, <2>5, Zenon DEF Parses
<1>3. ASSUME NEW i \in DOMAIN file, IsText(i) PROVE <<i, i>> \in Lines
  <2>1. i \in 1..Len(file) /\ Len(file) \in Nat
    BY <1>1
  <2>2. i > 1 => ~IsText(i - 1)
    BY <1>3, Zenon DEF TakeTurns
  <2>3. i < Len(file) => ~IsText(i + 1)
    <3> SUFFICES ASSUME i < Len(file) PROVE ~IsText(i + 1)
      BY Zenon
    <3>1. i + 1 \in DOMAIN file /\ i + 1 > 1 /\ (i + 1) - 1 = i
      BY <1>1, <2>1
    <3> QED
      BY <1>3, <3>1, Zenon DEF TakeTurns
  <2>4. ReadableAt(i)
    BY <1>3, <2>2, <2>3, Zenon DEF ReadableAt, TakeTurns
  <2> QED
    BY <2>4, ReadLine, Zenon
<1> QED
  BY <1>2, <1>3, Zenon

LEMMA HashAt ==
    ASSUME TypeOK, TakeTurns, NEW k \in Nat, NEW j \in DOMAIN file, IsText(j),
           j < k, \A m \in DOMAIN file : IsText(m) /\ m < k => m <= j
    PROVE  HashBefore(k) = <<file[j]>>
<1> DEFINE before == {l \in Lines : l[2] < k}
           last == CHOOSE l \in before : Later(l, before)
<1>1. file \in Seq(Piece)
  BY Zenon DEF TypeOK
<1>2. <<j, j>> \in before
  BY TurnLines, Zenon
<1>3. before \in SUBSET Lines /\ before # {}
  BY <1>2, Zenon
<1>4. last \in before /\ Later(last, before)
  <2>1. \E l \in before : Later(l, before)
    BY <1>1, <1>3, LastLine, ZenonT(30)
  <2> QED
    BY <2>1, ZenonT(30)
<1>5. HashBefore(k) = SubSeq(file, last[1], last[2])
  BY <1>3, ZenonT(30) DEF HashBefore
<1> HIDE DEF last
<1>6. last[1] = last[2] /\ last[2] \in DOMAIN file /\ IsText(last[2])
      /\ last[2] < k /\ j <= last[2]
  BY <1>2, <1>4, TurnLines, LineRead, Zenon DEF Later
<1>7. last[1] = j /\ last[2] = j
  <2>1. last[2] <= j
    BY <1>6, Zenon
  <2>2. j \in Nat /\ last[2] \in Nat
    BY <1>1, <1>6
  <2> QED
    BY <1>6, <2>1, <2>2
<1>8. SubSeq(file, j, j) = <<file[j]>>
  <2> DEFINE d == SubSeq(file, j, j)
  <2>1. j \in 1..Len(file) /\ Len(file) \in Nat /\ file[j] \in Piece
    BY <1>1
  <2>2. \A i \in j..j : file[i] \in Piece
    BY <2>1
  <2>3. d \in Seq(Piece) /\ Len(d) = 1 /\ d[1] = file[j]
    BY <1>1, <2>1, <2>2, SubSeqProperties
  <2>4. <<file[j]>> \in Seq(Piece) /\ Len(<<file[j]>>) = 1
        /\ <<file[j]>>[1] = file[j]
    BY <2>1
  <2> HIDE DEF d
  <2>5. d = <<file[j]>>
    BY <2>3, <2>4, SeqEqual
  <2> QED
    BY <2>5, Zenon DEF d
<1> QED
  BY <1>5, <1>7, <1>8, Zenon

LEMMA ChainRead ==
    ASSUME TypeOK, TakeTurns
    PROVE  /\ \A i \in DOMAIN file : IsText(i) => HashBefore(i) = Prior(i)
           /\ recovered_hash = EndHash
<1>1. file \in Seq(Piece) /\ DOMAIN file = 1..Len(file) /\ Len(file) \in Nat
  BY DEF TypeOK
<1>2. ASSUME NEW i \in DOMAIN file, IsText(i) PROVE HashBefore(i) = Prior(i)
  <2>1. i \in Nat /\ i >= 1
    BY <1>1
  <2>2. CASE i = 1
    <3>1. {l \in Lines : l[2] < i} = {}
      BY <1>1, <2>2, LineRead
    <3> QED
      BY <2>2, <3>1, Zenon DEF HashBefore, Prior
  <2>3. CASE i > 1
    <3>1. ~IsText(i - 1) /\ i - 1 \in DOMAIN file
      BY <1>1, <1>2, <2>1, <2>3 DEF TakeTurns
    <3>2. i - 1 > 1
      BY <1>1, <2>1, <3>1 DEF TakeTurns
    <3>3. i - 2 \in DOMAIN file /\ i - 2 < i /\ (i - 1) - 1 = i - 2
      BY <1>1, <2>1, <3>2
    <3>4. IsText(i - 2)
      BY <3>1, <3>2, <3>3, Zenon DEF TakeTurns
    <3>5. \A m \in DOMAIN file : IsText(m) /\ m < i => m <= i - 2
      <4> SUFFICES ASSUME NEW m \in DOMAIN file, IsText(m), m < i
                   PROVE  m <= i - 2
        BY Zenon
      <4>1. m # i - 1
        BY <3>1, Zenon
      <4>2. m \in Nat
        BY <1>1
      <4> QED
        BY <2>1, <4>1, <4>2
    <3>6. HashBefore(i) = <<file[i - 2]>>
      BY <2>1, <3>3, <3>4, <3>5, HashAt, Zenon
    <3> QED
      BY <2>3, <3>6 DEF Prior
  <2> QED
    BY <2>1, <2>2, <2>3
<1>3. recovered_hash = EndHash
  <2>1. CASE file = <<>>
    <3>1. DOMAIN file = {}
      BY <1>1, <2>1
    <3>2. {l \in Lines : l[2] < Len(file) + 1} = {}
      BY <3>1, LineRead, Zenon
    <3> QED
      BY <2>1, <3>2, Zenon DEF recovered_hash, HashBefore, EndHash
  <2>2. CASE file # <<>>
    <3>1. Len(file) \in DOMAIN file /\ Len(file) + 1 \in Nat
          /\ Len(file) < Len(file) + 1
      BY <1>1, <2>2, EmptySeq
    <3>2. CASE IsText(Len(file))
      <4>1. \A m \in DOMAIN file : IsText(m) /\ m < Len(file) + 1 => m <= Len(file)
        BY <1>1
      <4> QED
        BY <2>2, <3>1, <3>2, <4>1, HashAt, Zenon DEF recovered_hash, EndHash
    <3>3. CASE ~IsText(Len(file))
      <4>1. Len(file) > 1
        BY <1>1, <3>1, <3>3 DEF TakeTurns
      <4>2. Len(file) - 1 \in DOMAIN file /\ Len(file) - 1 < Len(file) + 1
        BY <1>1, <4>1
      <4>3. IsText(Len(file) - 1)
        BY <3>1, <3>3, <4>1, Zenon DEF TakeTurns
      <4>4. \A m \in DOMAIN file :
               IsText(m) /\ m < Len(file) + 1 => m <= Len(file) - 1
        <5> SUFFICES ASSUME NEW m \in DOMAIN file, IsText(m)
                     PROVE  m <= Len(file) - 1
          BY Zenon
        <5>1. m # Len(file) /\ m \in 1..Len(file)
          BY <1>1, <3>3, Zenon
        <5> QED
          BY <1>1, <5>1
      <4> QED
        BY <2>2, <3>1, <3>3, <4>2, <4>3, <4>4, HashAt, Zenon
           DEF recovered_hash, EndHash
    <3> QED
      BY <3>2, <3>3, Zenon
  <2> QED
    BY <2>1, <2>2, Zenon
<1> QED
  BY <1>2, <1>3, Zenon

-----------------------------------------------------------------------------
(***************************************************************************)
(* What an append to the file leaves as it was.                            *)
(***************************************************************************)
LEMMA Grown ==
    ASSUME TypeOK, NEW p \in Piece, file' = Append(file, p), NEW n, n = Len(file)
    PROVE  /\ n \in Nat /\ DOMAIN file = 1..n
           /\ DOMAIN file' = 1..(n + 1) /\ Len(file') = n + 1
           /\ \A i \in 1..n : file'[i] = file[i] /\ (IsText(i)' <=> IsText(i))
           /\ file'[n + 1] = p /\ (IsText(n + 1)' <=> p.by # None)
           /\ file' # <<>>
<1>1. file \in Seq(Piece)
  BY Zenon DEF TypeOK
<1>2. /\ file' \in Seq(Piece)
      /\ Len(file') = n + 1
      /\ \A i \in 1..n : file'[i] = file[i]
      /\ file'[n + 1] = p
  BY <1>1, AppendProperties
<1>3. n \in Nat /\ DOMAIN file = 1..n /\ DOMAIN file' = 1..(n + 1)
  BY <1>1, <1>2
<1>4. file' # <<>>
  BY <1>2, <1>3, EmptySeq
<1> QED
  BY <1>2, <1>3, <1>4, Zenon DEF IsText

LEMMA ReadAfter ==
    ASSUME TypeOK, NEW p \in Piece, file' = Append(file, p), NEW n, n = Len(file),
           NEW i, ReadableAt(i)'
    PROVE  \/ i \in 1..n /\ ReadableAt(i) /\ file'[i] = file[i]
           \/ i = n + 1 /\ p.by # None /\ p.whole
<1>1. /\ n \in Nat /\ DOMAIN file = 1..n
      /\ DOMAIN file' = 1..(n + 1) /\ Len(file') = n + 1
      /\ \A j \in 1..n : file'[j] = file[j] /\ (IsText(j)' <=> IsText(j))
      /\ file'[n + 1] = p /\ (IsText(n + 1)' <=> p.by # None)
  BY Grown, Zenon
<1>2. /\ i \in 1..(n + 1) /\ IsText(i)' /\ file'[i].whole
      /\ i > 1 => ~IsText(i - 1)'
      /\ i < n + 1 => ~IsText(i + 1)'
  BY <1>1, Zenon DEF ReadableAt
<1>3. CASE i = n + 1
  BY <1>1, <1>2, <1>3, Zenon
<1>4. CASE i \in 1..n
  <2>1. IsText(i) /\ file[i].whole /\ file'[i] = file[i]
    BY <1>1, <1>2, <1>4, Zenon
  <2>2. i > 1 => ~IsText(i - 1)
    <3>1. i > 1 => i - 1 \in 1..n
      BY <1>1, <1>4
    <3> QED
      BY <1>1, <1>2, <3>1, Zenon
  <2>3. i < n => ~IsText(i + 1)
    <3>1. i < n => i + 1 \in 1..n /\ i < n + 1
      BY <1>1, <1>4
    <3> QED
      BY <1>1, <1>2, <3>1, Zenon
  <2> QED
    BY <1>1, <1>4, <2>1, <2>2, <2>3, Zenon DEF ReadableAt
<1> QED
  BY <1>1, <1>2, <1>3, <1>4

(***************************************************************************)
(* What every step does to the calls and to the file.                      *)
(***************************************************************************)
After == {"written", "appended", "failed", "lost"}

LEMMA CallsMove ==
    ASSUME TypeOK, [Next]_logVars
    PROVE  /\ \A r \in Recorders : pc[r] \in After => pc'[r] \in After
           /\ \A r \in Recorders : pc[r] \in After => entry'[r] = entry[r]
           /\ overlap => overlap'
           /\ cut => cut'
           /\ \/ UNCHANGED file
              \/ \E p \in Piece :
                    /\ file' = Append(file, p)
                    /\ p.by # None => p.by \in Recorders /\ pc'[p.by] \in After
<1>0. /\ pc \in [Recorders -> Places]
      /\ entry \in [Recorders ->
                      [sequence : Nat, prev_hash : Seq(Piece), epoch : Nat]]
      /\ overlap \in BOOLEAN /\ cut \in BOOLEAN
  BY Zenon DEF TypeOK
<1>1. /\ overlap => overlap'
      /\ cut => cut'
  BY <1>0, Zenon
     DEF Next, Claim, Record, ReadHead, MoveHead, WriteLine, EndLine, Drop,
         Crash, Open, Quiet, logVars
<1>2. \A r \in Recorders : pc[r] \in After => pc'[r] \in After
  BY <1>0, ZenonT(30)
     DEF Next, Claim, Record, ReadHead, MoveHead, WriteLine, EndLine, Drop,
         Crash, Open, Quiet, logVars, Goto, After, Inside
<1>3. \A r \in Recorders : pc[r] \in After => entry'[r] = entry[r]
  BY <1>0, ZenonT(30)
     DEF Next, Claim, Record, ReadHead, MoveHead, WriteLine, EndLine, Drop,
         Crash, Open, Quiet, logVars, Goto, After
<1> DEFINE Fits(p) == /\ file' = Append(file, p)
                      /\ p.by # None => p.by \in Recorders /\ pc'[p.by] \in After
<1>4. UNCHANGED file \/ \E p \in Piece : Fits(p)
  <2>1. ASSUME NEW r \in Recorders, WriteLine(r)
        PROVE  UNCHANGED file \/ \E p \in Piece : Fits(p)
    <3>1. /\ pc'[r] \in After
          /\ \/ UNCHANGED file
             \/ file' = Append(file, LineOf(r))
             \/ file' = Append(file, TornLineOf(r))
      BY <1>0, <2>1, Zenon DEF WriteLine, Goto, After
    <3> QED
      BY <3>1, PiecesTyped, Zenon DEF LineOf, TornLineOf
  <2>2. ASSUME NEW r \in Recorders, EndLine(r)
        PROVE  UNCHANGED file \/ \E p \in Piece : Fits(p)
    <3>1. UNCHANGED file \/ file' = Append(file, Newline)
      BY <2>2, Zenon DEF EndLine
    <3> QED
      BY <3>1, PiecesTyped, Zenon DEF Newline
  <2>3. CASE Crash
    <3>1. \/ UNCHANGED file
          \/ \E r \in Recorders : /\ file' = Append(file, TornLineOf(r))
                                  /\ pc'[r] \in After
      BY <1>0, <2>3, Zenon DEF Crash, Inside, After
    <3> QED
      BY <3>1, PiecesTyped, ZenonT(30) DEF TornLineOf
  <2>4. ASSUME NEW r \in Recorders, Claim(r) \/ ReadHead(r) \/ MoveHead(r) \/ Drop(r)
        PROVE  UNCHANGED file
    BY <2>4, Zenon DEF Claim, ReadHead, MoveHead, Drop
  <2>5. CASE Open \/ Quiet \/ UNCHANGED logVars
    BY <2>5, Zenon DEF Open, Quiet, logVars
  <2> HIDE DEF Fits
  <2> QED
    BY <2>1, <2>2, <2>3, <2>4, <2>5, Zenon DEF Next, Record
<1> QED
  BY <1>1, <1>2, <1>3, <1>4, Zenon

LEMMA SpentStep ==
    ASSUME TypeOK, Spent, [Next]_logVars
    PROVE  Spent'
<1>1. Spent <=> \A i \in DOMAIN file : IsText(i) => pc[file[i].by] \in After
  BY Zenon DEF Spent, After
<1>2. Spent' <=> \A i \in DOMAIN file' : IsText(i)' => pc'[file'[i].by] \in After
  BY Zenon DEF Spent, After
<1>3. \A i \in DOMAIN file : IsText(i) => pc'[file[i].by] \in After
  BY <1>1, CallsMove, TextTyped, Zenon
<1>4. CASE UNCHANGED file
  BY <1>2, <1>3, <1>4, Zenon DEF IsText
<1>5. CASE \E p \in Piece :
              /\ file' = Append(file, p)
              /\ p.by # None => p.by \in Recorders /\ pc'[p.by] \in After
  <2>0. PICK n : n = Len(file)
    BY ZenonT(30)
  <2>1. PICK p \in Piece :
           /\ file' = Append(file, p)
           /\ p.by # None => p.by \in Recorders /\ pc'[p.by] \in After
    BY <1>5, Zenon
  <2>2. /\ n \in Nat /\ DOMAIN file = 1..n /\ DOMAIN file' = 1..(n + 1)
        /\ \A i \in 1..n : file'[i] = file[i] /\ (IsText(i)' <=> IsText(i))
        /\ file'[n + 1] = p /\ (IsText(n + 1)' <=> p.by # None)
    BY <2>0, <2>1, Grown, Zenon
  <2>3. ASSUME NEW i \in DOMAIN file', IsText(i)' PROVE pc'[file'[i].by] \in After
    <3>1. i \in 1..n \/ i = n + 1
      BY <2>2
    <3> QED
      BY <1>3, <2>1, <2>2, <2>3, <3>1, Zenon
  <2> QED
    BY <1>2, <2>3, Zenon
<1> QED
  BY <1>4, <1>5, CallsMove, Zenon

LEMMA AloneStep ==
    ASSUME TypeOK, Alone, [Next]_logVars, ~overlap'
    PROVE  Alone'
<1>0. pc \in [Recorders -> Places]
  BY Zenon DEF TypeOK
<1>1. ASSUME NEW r \in Recorders, Claim(r)
      PROVE  Alone'
  <2>1. /\ up' = up /\ up /\ pc' = [pc EXCEPT ![r] = "claimed"]
        /\ \A s \in Recorders : pc[s] \notin Inside
    BY <1>1, ZenonT(30) DEF Claim, Goto
  <2> QED
    BY <1>0, <2>1, Zenon DEF Alone
<1>2. ASSUME NEW r \in Recorders, Record(r) \/ Drop(r)
      PROVE  Alone'
  <2>1. /\ up' = up /\ up
        /\ \A s \in Recorders : pc'[s] \in Inside => pc[s] \in Inside
    BY <1>0, <1>2, Zenon
       DEF Record, ReadHead, MoveHead, WriteLine, EndLine, Drop, Goto, Inside
  <2> QED
    BY <2>1, Zenon DEF Alone
<1>3. CASE Crash
  <2>1. \A s \in Recorders : pc'[s] \notin Inside
    BY <1>0, <1>3, Zenon DEF Crash, Inside
  <2> QED
    BY <2>1, Zenon DEF Alone
<1>4. CASE Open
  <2>1. pc' = pc /\ ~up /\ up'
    BY <1>4, Zenon DEF Open
  <2> QED
    BY <2>1, Zenon DEF Alone
<1>5. CASE Quiet \/ UNCHANGED logVars
  BY <1>5, Zenon DEF Quiet, logVars, Alone
<1> QED
  BY <1>1, <1>2, <1>3, <1>4, <1>5, Zenon DEF Next

(***************************************************************************)
(* The numbers that can be read.                                           *)
(***************************************************************************)
LEMMA OrderedKept ==
    ASSUME TypeOK, Spent, Ordered, [Next]_logVars,
           UNCHANGED sequence, up' => up,
           \A i \in DOMAIN file' : ReadableAt(i)' =>
              i \in DOMAIN file /\ ReadableAt(i) /\ file'[i] = file[i],
           \A r \in Recorders : pc'[r] \in Before =>
              pc[r] \in Before /\ entry'[r].sequence = entry[r].sequence
    PROVE  Ordered'
<1>1. \A i \in DOMAIN file' : ReadableAt(i)' => NumberAt(i)' = NumberAt(i)
  <2> SUFFICES ASSUME NEW i \in DOMAIN file', ReadableAt(i)'
               PROVE  NumberAt(i)' = NumberAt(i)
    BY Zenon
  <2>1. i \in DOMAIN file /\ IsText(i) /\ file'[i] = file[i]
    BY Zenon DEF ReadableAt
  <2>2. file[i].by \in Recorders /\ pc[file[i].by] \in After
    BY <2>1, TextTyped, Zenon DEF Spent, After
  <2>3. entry'[file[i].by] = entry[file[i].by]
    BY <2>2, CallsMove, Zenon
  <2> QED
    BY <2>1, <2>3, Zenon DEF NumberAt
<1>2. \A i, j \in DOMAIN file' :
         ReadableAt(i)' /\ ReadableAt(j)' /\ i < j => NumberAt(i)' < NumberAt(j)'
  BY <1>1, Zenon DEF Ordered
<1>3. up' => \A i \in DOMAIN file' : ReadableAt(i)' => NumberAt(i)' < sequence'
  BY <1>1, Zenon DEF Ordered
<1>4. \A r \in Recorders : pc'[r] \in Before =>
         /\ entry'[r].sequence < sequence'
         /\ \A i \in DOMAIN file' :
               ReadableAt(i)' => NumberAt(i)' < entry'[r].sequence
  BY <1>1, Zenon DEF Ordered
<1> QED
  BY <1>2, <1>3, <1>4, Zenon DEF Ordered

LEMMA OrderedStep ==
    ASSUME TypeOK, Spent, Alone, Ordered, [Next]_logVars, ~overlap'
    PROVE  Ordered'
<1>0. /\ pc \in [Recorders -> Places] /\ sequence \in Nat /\ crashes \in Nat
      /\ entry \in [Recorders ->
                      [sequence : Nat, prev_hash : Seq(Piece), epoch : Nat]]
      /\ file \in Seq(Piece)
  BY LogAssumption DEF TypeOK
<1>a. UNCHANGED file =>
         \A i \in DOMAIN file' : ReadableAt(i)' =>
            i \in DOMAIN file /\ ReadableAt(i) /\ file'[i] = file[i]
  BY Zenon DEF ReadableAt, IsText
<1>b. ASSUME NEW p \in Piece, file' = Append(file, p), p.by = None \/ ~p.whole
      PROVE  \A i \in DOMAIN file' : ReadableAt(i)' =>
                i \in DOMAIN file /\ ReadableAt(i) /\ file'[i] = file[i]
  <2>0. PICK n : n = Len(file)
    BY ZenonT(30)
  <2>1. \A i : ReadableAt(i)' =>
           i \in 1..n /\ ReadableAt(i) /\ file'[i] = file[i]
    BY <1>b, <2>0, ReadAfter, Zenon
  <2> QED
    BY <1>0, <2>0, <2>1
<1>1. ASSUME NEW r \in Recorders, Claim(r)
      PROVE  Ordered'
  <2>1. /\ up' = up /\ up /\ UNCHANGED file
        /\ pc[r] = "idle" /\ pc' = [pc EXCEPT ![r] = "claimed"]
        /\ sequence' = sequence + 1
        /\ entry' = [entry EXCEPT ![r].sequence = sequence,
                                  ![r].epoch = crashes]
        /\ \A s \in Recorders : pc[s] \notin Inside
    BY <1>1, ZenonT(30) DEF Claim, Goto
  <2>2. /\ entry'[r].sequence = sequence
        /\ \A s \in Recorders : pc'[s] \in Before => s = r
    BY <1>0, <2>1, Zenon DEF Before, Inside
  <2>3. \A i \in DOMAIN file' : ReadableAt(i)' =>
           i \in DOMAIN file /\ ReadableAt(i) /\ file'[i] = file[i]
    BY <1>a, <2>1, Zenon
  <2>4. \A i \in DOMAIN file' : ReadableAt(i)' =>
           NumberAt(i)' = NumberAt(i) /\ NumberAt(i) \in Nat
    <3> SUFFICES ASSUME NEW i \in DOMAIN file', ReadableAt(i)'
                 PROVE  NumberAt(i)' = NumberAt(i) /\ NumberAt(i) \in Nat
      BY Zenon
    <3>1. i \in DOMAIN file /\ IsText(i) /\ file'[i] = file[i]
      BY <2>3, Zenon DEF ReadableAt
    <3>2. file[i].by \in Recorders /\ pc[file[i].by] \in After
      BY <3>1, TextTyped, Zenon DEF Spent, After
    <3>3. entry'[file[i].by] = entry[file[i].by]
      BY <3>2, CallsMove, Zenon
    <3> QED
      BY <1>0, <3>1, <3>2, <3>3, Zenon DEF NumberAt
  <2>5. \A i \in DOMAIN file' : ReadableAt(i)' => NumberAt(i)' < sequence
    BY <2>1, <2>3, <2>4, Zenon DEF Ordered
  <2>6. \A i, j \in DOMAIN file' :
           ReadableAt(i)' /\ ReadableAt(j)' /\ i < j => NumberAt(i)' < NumberAt(j)'
    BY <2>3, <2>4, Zenon DEF Ordered
  <2>7. \A i \in DOMAIN file' : ReadableAt(i)' => NumberAt(i)' < sequence'
    BY <1>0, <2>1, <2>4, <2>5
  <2>8. \A s \in Recorders : pc'[s] \in Before =>
           /\ entry'[s].sequence < sequence'
           /\ \A i \in DOMAIN file' :
                 ReadableAt(i)' => NumberAt(i)' < entry'[s].sequence
    BY <1>0, <2>1, <2>2, <2>5
  <2> QED
    BY <2>6, <2>7, <2>8, Zenon DEF Ordered
<1>2. ASSUME NEW r \in Recorders, ReadHead(r) \/ MoveHead(r) \/ Drop(r)
      PROVE  Ordered'
  <2>1. /\ UNCHANGED <<sequence, up, file>>
        /\ \A s \in Recorders : pc'[s] \in Before => pc[s] \in Before
    BY <1>0, <1>2, Zenon DEF ReadHead, MoveHead, Drop, Goto, Before
  <2>2. \A s \in Recorders : entry'[s].sequence = entry[s].sequence
    BY <1>0, <1>2, ZenonT(30) DEF ReadHead, MoveHead, Drop
  <2> QED
    BY <1>a, <2>1, <2>2, OrderedKept, Zenon
<1>3. ASSUME NEW r \in Recorders, EndLine(r)
      PROVE  Ordered'
  <2>1. /\ UNCHANGED <<sequence, up, entry>>
        /\ \A s \in Recorders : pc'[s] \in Before => pc[s] \in Before
    BY <1>0, <1>3, Zenon DEF EndLine, Goto, Before
  <2>2. UNCHANGED file \/ file' = Append(file, Newline)
    BY <1>3, Zenon DEF EndLine
  <2>3. Newline \in Piece /\ Newline.by = None
    BY PiecesTyped, Zenon DEF Newline
  <2> QED
    BY <1>a, <1>b, <2>1, <2>2, <2>3, OrderedKept, Zenon
<1>4. CASE Crash
  <2>1. /\ UNCHANGED <<sequence, entry>> /\ ~up'
        /\ \A s \in Recorders : pc'[s] \notin Before
    BY <1>0, <1>4, Zenon DEF Crash, Before, Inside
  <2>2. \/ UNCHANGED file
        \/ \E r \in Recorders : file' = Append(file, TornLineOf(r))
    BY <1>4, Zenon DEF Crash
  <2>3. \A r \in Recorders : TornLineOf(r) \in Piece /\ ~TornLineOf(r).whole
    BY PiecesTyped, ZenonT(30) DEF TornLineOf
  <2> QED
    BY <1>a, <1>b, <2>1, <2>2, <2>3, OrderedKept, Zenon
<1>5. ASSUME NEW r \in Recorders, WriteLine(r)
      PROVE  Ordered'
  <2>0. /\ UNCHANGED <<sequence, up, entry>> /\ pc[r] = "queued"
        /\ pc'[r] \notin Before
        /\ \A s \in Recorders : pc'[s] \in Before => pc[s] \in Before
    BY <1>0, <1>5, Zenon DEF WriteLine, Goto, Before
  <2>1. CASE UNCHANGED file
    BY <1>a, <2>0, <2>1, OrderedKept, Zenon
  <2>2. CASE file' = Append(file, TornLineOf(r))
    <3>1. TornLineOf(r) \in Piece /\ ~TornLineOf(r).whole
      BY PiecesTyped, Zenon DEF TornLineOf
    <3> QED
      BY <1>b, <2>0, <2>2, <3>1, OrderedKept, Zenon
  <2>3. CASE file' = Append(file, LineOf(r))
    <3>0. PICK n : n = Len(file)
      BY ZenonT(30)
    <3>1. LineOf(r) \in Piece /\ LineOf(r).by = r
      BY PiecesTyped, Zenon DEF LineOf
    <3>2. /\ n \in Nat /\ DOMAIN file = 1..n /\ DOMAIN file' = 1..(n + 1)
          /\ file'[n + 1] = LineOf(r)
      BY <2>3, <3>0, <3>1, Grown, Zenon
    <3>3. \A i : ReadableAt(i)' =>
             \/ i \in 1..n /\ ReadableAt(i) /\ file'[i] = file[i]
             \/ i = n + 1
      BY <2>3, <3>0, <3>1, ReadAfter, Zenon
    <3>4. NumberAt(n + 1)' = entry[r].sequence
      BY <2>0, <3>1, <3>2, Zenon DEF NumberAt
    <3>5. \A i \in 1..n : ReadableAt(i)' => NumberAt(i)' = NumberAt(i)
      BY <2>0, <3>2, <3>3 DEF NumberAt
    <3>6. \A i \in 1..n : ReadableAt(i)' =>
             ReadableAt(i) /\ NumberAt(i) < entry[r].sequence
                           /\ (up => NumberAt(i) < sequence)
      <4> SUFFICES ASSUME NEW i \in 1..n, ReadableAt(i)'
                   PROVE  ReadableAt(i) /\ NumberAt(i) < entry[r].sequence
                                        /\ (up => NumberAt(i) < sequence)
        BY Zenon
      <4>1. ReadableAt(i)
        <5>1. i # n + 1
          BY <3>2
        <5> QED
          BY <3>3, <5>1, Zenon
      <4> QED
        BY <2>0, <3>2, <4>1, Zenon DEF Ordered, Before
    <3>7. entry[r].sequence < sequence
      BY <2>0, Zenon DEF Ordered, Before
    <3>8. \A i, j \in DOMAIN file' :
             ReadableAt(i)' /\ ReadableAt(j)' /\ i < j
               => NumberAt(i)' < NumberAt(j)'
      <4> SUFFICES ASSUME NEW i \in DOMAIN file', NEW j \in DOMAIN file',
                          ReadableAt(i)', ReadableAt(j)', i < j
                   PROVE  NumberAt(i)' < NumberAt(j)'
        BY Zenon
      <4>1. i \in 1..n /\ (j \in 1..n \/ j = n + 1)
        BY <3>2
      <4>2. CASE j \in 1..n
        BY <3>2, <3>5, <3>6, <4>1, <4>2, Zenon DEF Ordered
      <4>3. CASE j = n + 1
        BY <3>4, <3>5, <3>6, <4>1, <4>3, Zenon
      <4> QED
        BY <4>1, <4>2, <4>3, Zenon
    <3>9. up' => \A i \in DOMAIN file' : ReadableAt(i)' => NumberAt(i)' < sequence'
      <4> SUFFICES ASSUME up', NEW i \in DOMAIN file', ReadableAt(i)'
                   PROVE  NumberAt(i)' < sequence'
        BY Zenon
      <4>1. i \in 1..n \/ i = n + 1
        BY <3>2
      <4> QED
        BY <2>0, <3>4, <3>5, <3>6, <3>7, <4>1, Zenon
    <3>10. \A s \in Recorders : pc'[s] \notin Before
      BY <2>0, Zenon DEF Alone, Before, Inside
    <3> QED
      BY <3>8, <3>9, <3>10, Zenon DEF Ordered
  <2> QED
    BY <1>5, <2>1, <2>2, <2>3, Zenon DEF WriteLine
<1>6. CASE Open
  <2>1. /\ UNCHANGED <<file, entry, pc>> /\ ~up /\ sequence' = recovered_sequence
    BY <1>6, Zenon DEF Open
  <2>2. \A i \in DOMAIN file' : ReadableAt(i)' =>
           i \in DOMAIN file /\ ReadableAt(i) /\ NumberAt(i)' = NumberAt(i)
    BY <2>1, Zenon DEF ReadableAt, IsText, NumberAt
  <2>3. \A s \in Recorders : pc'[s] \notin Before
    BY <2>1, Zenon DEF Alone, Before, Inside
  <2>4. \A i \in DOMAIN file' : ReadableAt(i)' => NumberAt(i)' < sequence'
    BY <2>1, <2>2, RecoveredAbove, Zenon
  <2>5. \A i, j \in DOMAIN file' :
           ReadableAt(i)' /\ ReadableAt(j)' /\ i < j => NumberAt(i)' < NumberAt(j)'
    BY <2>2, Zenon DEF Ordered
  <2> QED
    BY <2>3, <2>4, <2>5, Zenon DEF Ordered
<1>7. CASE Quiet \/ UNCHANGED logVars
  <2>1. UNCHANGED <<file, entry, pc, up, sequence>>
    BY <1>7, Zenon DEF Quiet, logVars
  <2> QED
    BY <1>a, <2>1, OrderedKept, Zenon
<1> QED
  BY <1>1, <1>2, <1>3, <1>4, <1>5, <1>6, <1>7, Zenon DEF Next, Record

(***************************************************************************)
(* The chain.  Steps that leave the file alone leave its links alone; a    *)
(* whole event goes behind a newline, and a newline behind its event.      *)
(***************************************************************************)
LEMMA LinksStay ==
    ASSUME TypeOK, Spent, Linked, [Next]_logVars, NEW i \in DOMAIN file, IsText(i)
    PROVE  /\ entry'[file[i].by].prev_hash = Prior(i)
           /\ file[i].by \in Recorders
<1>1. file[i].by \in Recorders /\ pc[file[i].by] \in After
  BY TextTyped, Zenon DEF Spent, After
<1>2. entry'[file[i].by] = entry[file[i].by]
  BY <1>1, CallsMove, Zenon
<1> QED
  BY <1>1, <1>2, Zenon DEF Linked

LEMMA PriorStays ==
    ASSUME TakeTurns, NEW n \in Nat, DOMAIN file = 1..n,
           \A i \in 1..n : file'[i] = file[i], NEW i \in 1..n, IsText(i)
    PROVE  Prior(i)' = Prior(i)
<1>1. CASE i = 1
  BY <1>1, Zenon DEF Prior
<1>2. CASE i > 1
  <2>1. i - 1 \in 1..n /\ ~IsText(i - 1)
    BY <1>2 DEF TakeTurns
  <2>2. i - 1 # 1
    BY <2>1, Zenon DEF TakeTurns
  <2>3. i - 2 \in 1..n
    BY <2>1, <2>2
  <2> QED
    BY <2>3, Zenon DEF Prior
<1> QED
  BY <1>1, <1>2

LEMMA FileIdle ==
    ASSUME TypeOK, Spent, TakeTurns, Linked, [Next]_logVars, UNCHANGED file,
           \A r \in Recorders : pc'[r] = "written" <=> pc[r] = "written",
           \A r \in Recorders :
              /\ pc'[r] \in {"linked", "queued"} => entry'[r].prev_hash = EndHash
              /\ pc'[r] \in {"queued", "written"} => prev_hash' = <<LineOf(r)>>,
           up' /\ (\A r \in Recorders : pc'[r] \notin {"queued", "written"}) =>
              prev_hash' = EndHash
    PROVE  TakeTurns' /\ Linked'
<1>1. TakeTurns'
  BY Zenon DEF TakeTurns, IsText, LineOf
<1>2. EndHash' = EndHash /\ \A i : Prior(i)' = Prior(i) /\ (IsText(i)' <=> IsText(i))
  BY Zenon DEF EndHash, IsText, Prior
<1>3. \A i \in DOMAIN file' : IsText(i)' => entry'[file'[i].by].prev_hash = Prior(i)'
  BY <1>2, LinksStay, Zenon
<1> QED
  BY <1>1, <1>2, <1>3, Zenon DEF Linked, LineOf

LEMMA EventAdded ==
    ASSUME TypeOK, Spent, TakeTurns, Linked, Alone, [Next]_logVars,
           NEW r \in Recorders, pc[r] = "queued", up,
           pc' = [pc EXCEPT ![r] = "written"], file' = Append(file, LineOf(r)),
           UNCHANGED <<entry, prev_hash, up>>
    PROVE  TakeTurns' /\ Linked'
<1>0. PICK n : n = Len(file)
  BY Zenon
<1>1. LineOf(r) \in Piece /\ LineOf(r).by = r /\ LineOf(r).whole /\ r # None
  BY PiecesTyped, LogAssumption, Zenon DEF LineOf
<1>2. /\ n \in Nat /\ DOMAIN file = 1..n
      /\ DOMAIN file' = 1..(n + 1) /\ Len(file') = n + 1
      /\ \A i \in 1..n : file'[i] = file[i] /\ (IsText(i)' <=> IsText(i))
      /\ file'[n + 1] = LineOf(r) /\ IsText(n + 1)'
      /\ file' # <<>>
  BY <1>0, <1>1, Grown, Zenon
<1>3. \A s \in Recorders : s # r => pc[s] \notin Inside /\ pc'[s] = pc[s]
  BY Zenon DEF Alone, Inside, TypeOK
<1>4. pc'[r] = "written" /\ \A s \in Recorders : pc'[s] = "written" => s = r
  BY <1>3, Zenon DEF TypeOK, Inside
<1>5. file = <<>> \/ ~IsText(n)
  <2>1. \A s \in Recorders : pc[s] # "written"
    BY <1>3, Zenon DEF Inside
  <2> QED
    BY <1>0, <2>1, Zenon DEF TakeTurns
<1>6. n = 0 <=> file = <<>>
  BY <1>0, EmptySeq, Zenon DEF TypeOK
<1>7. TakeTurns'
  <2>1. ASSUME NEW i \in DOMAIN file'
        PROVE  /\ file'[i].whole
               /\ i = 1 => IsText(i)'
               /\ i > 1 => (IsText(i)' <=> ~IsText(i - 1)')
    <3>1. CASE i \in 1..n
      <4>1. i > 1 => i - 1 \in 1..n
        BY <1>2, <3>1
      <4> QED
        BY <1>2, <3>1, <4>1, Zenon DEF TakeTurns
    <3>2. CASE i = n + 1
      <4>1. i > 1 => i - 1 = n /\ n \in 1..n /\ n # 0
        BY <1>2, <3>2
      <4> QED
        BY <1>1, <1>2, <1>5, <1>6, <3>2, <4>1, Zenon
    <3> QED
      BY <1>2, <3>1, <3>2
  <2>2. \A s \in Recorders : pc'[s] = "written" =>
           file' # <<>> /\ file'[Len(file')] = LineOf(s)
    BY <1>2, <1>4, Zenon
  <2>3. ~(\A s \in Recorders : pc'[s] # "written")
    BY <1>4, Zenon
  <2> QED
    BY <2>1, <2>2, <2>3, Zenon DEF TakeTurns, LineOf
<1>8. Linked'
  <2>1. ASSUME NEW i \in DOMAIN file', IsText(i)'
        PROVE  entry'[file'[i].by].prev_hash = Prior(i)'
    <3>1. CASE i \in 1..n
      <4>1. entry'[file[i].by].prev_hash = Prior(i) /\ IsText(i)
        BY <1>2, <2>1, <3>1, LinksStay, Zenon
      <4>2. Prior(i)' = Prior(i)
        BY <1>2, <3>1, <4>1, PriorStays, Zenon
      <4> QED
        BY <1>2, <3>1, <4>1, <4>2, Zenon
    <3>2. CASE i = n + 1
      <4>1. entry'[r].prev_hash = EndHash
        BY Zenon DEF Linked
      <4>2. EndHash = Prior(i)'
        <5>1. CASE n = 0
          BY <1>6, <3>2, <5>1 DEF EndHash, Prior
        <5>2. CASE n # 0
          <6>1. ~IsText(n) /\ n \in DOMAIN file /\ file # <<>>
            BY <1>2, <1>5, <1>6, <5>2
          <6>2. n # 1
            BY <6>1, Zenon DEF TakeTurns
          <6>3. i - 2 = n - 1 /\ n - 1 \in 1..n /\ i # 1
            BY <1>2, <3>2, <5>2, <6>2
          <6>4. EndHash = <<file[n - 1]>>
            BY <1>0, <6>1, Zenon DEF EndHash
          <6> QED
            BY <1>2, <6>3, <6>4, Zenon DEF Prior
        <5> QED
          BY <5>1, <5>2, Zenon
      <4> QED
        BY <1>1, <1>2, <3>2, <4>1, <4>2, Zenon
    <3> QED
      BY <1>2, <3>1, <3>2
  <2>2. ASSUME NEW s \in Recorders
        PROVE  /\ pc'[s] \notin {"linked", "queued"}
               /\ pc'[s] \in {"queued", "written"} => prev_hash' = <<LineOf(s)>>
    BY <1>3, <1>4, Zenon DEF Inside, Linked
  <2>3. ~(\A s \in Recorders : pc'[s] \notin {"queued", "written"})
    BY <1>4, Zenon
  <2> QED
    BY <2>1, <2>2, <2>3, Zenon DEF Linked, LineOf
<1> QED
  BY <1>7, <1>8, Zenon

LEMMA NewlineAdded ==
    ASSUME TypeOK, Spent, TakeTurns, Linked, Alone, [Next]_logVars,
           NEW r \in Recorders, pc[r] = "written", up,
           NEW to \in {"appended", "failed"}, pc' = [pc EXCEPT ![r] = to],
           file' = Append(file, Newline), UNCHANGED <<entry, prev_hash, up>>
    PROVE  TakeTurns' /\ Linked'
<1>0. PICK n : n = Len(file)
  BY Zenon
<1>1. Newline \in Piece /\ Newline.by = None /\ Newline.whole
  BY PiecesTyped, Zenon DEF Newline
<1>2. /\ n \in Nat /\ DOMAIN file = 1..n
      /\ DOMAIN file' = 1..(n + 1) /\ Len(file') = n + 1
      /\ \A i \in 1..n : file'[i] = file[i] /\ (IsText(i)' <=> IsText(i))
      /\ file'[n + 1] = Newline /\ ~IsText(n + 1)'
      /\ file' # <<>>
  BY <1>0, <1>1, Grown, Zenon
<1>3. \A s \in Recorders : pc'[s] \notin Inside
  BY Zenon DEF Alone, Inside, TypeOK
<1>4. /\ n # 0 /\ file[n] = LineOf(r) /\ IsText(n) /\ n \in 1..n
      /\ prev_hash' = <<LineOf(r)>>
  <2>1. file # <<>> /\ file[n] = LineOf(r) /\ prev_hash' = <<LineOf(r)>>
    BY <1>0, Zenon DEF TakeTurns, Linked
  <2>2. n # 0
    BY <1>0, <2>1, EmptySeq, Zenon DEF TypeOK
  <2>3. IsText(n)
    BY <2>1, LogAssumption DEF IsText, LineOf
  <2> QED
    BY <1>2, <2>1, <2>2, <2>3
<1>5. TakeTurns'
  <2>1. ASSUME NEW i \in DOMAIN file'
        PROVE  /\ file'[i].whole
               /\ i = 1 => IsText(i)'
               /\ i > 1 => (IsText(i)' <=> ~IsText(i - 1)')
    <3>1. CASE i \in 1..n
      <4>1. i > 1 => i - 1 \in 1..n
        BY <1>2, <3>1
      <4> QED
        BY <1>2, <3>1, <4>1, Zenon DEF TakeTurns
    <3>2. CASE i = n + 1
      <4>1. i - 1 = n /\ i # 1
        BY <1>2, <1>4, <3>2
      <4> QED
        BY <1>1, <1>2, <1>4, <3>2, <4>1, Zenon
    <3> QED
      BY <1>2, <3>1, <3>2
  <2>2. \A s \in Recorders : pc'[s] # "written"
    BY <1>3, Zenon DEF Inside
  <2>3. ~IsText(Len(file))'
    BY <1>2, Zenon DEF IsText
  <2> QED
    BY <2>1, <2>2, <2>3, Zenon DEF TakeTurns
<1>6. EndHash' = <<LineOf(r)>>
  <2>1. ~IsText(Len(file))' /\ (n + 1) - 1 = n
    BY <1>2 DEF IsText
  <2>2. file'[n] = LineOf(r)
    BY <1>2, <1>4, Zenon
  <2> QED
    BY <1>2, <2>1, <2>2, ZenonT(30) DEF EndHash
<1>7. ASSUME NEW i \in DOMAIN file', IsText(i)'
      PROVE  entry'[file'[i].by].prev_hash = Prior(i)'
  <2>1. i \in 1..n /\ IsText(i)
    BY <1>2, <1>7
  <2>2. entry'[file[i].by].prev_hash = Prior(i)
    BY <1>2, <2>1, LinksStay, Zenon
  <2>3. Prior(i)' = Prior(i)
    BY <1>2, <2>1, PriorStays, Zenon
  <2> QED
    BY <1>2, <2>1, <2>2, <2>3, Zenon
<1>8. Linked'
  BY <1>3, <1>4, <1>6, <1>7, Zenon DEF Linked, Inside, LineOf
<1> QED
  BY <1>5, <1>8, Zenon

LEMMA ChainStep ==
    ASSUME TypeOK, Spent, Alone, TakeTurns, Linked, [Next]_logVars,
           ~overlap', ~cut'
    PROVE  TakeTurns' /\ Linked'
<1>0. /\ pc \in [Recorders -> Places]
      /\ entry \in [Recorders ->
                      [sequence : Nat, prev_hash : Seq(Piece), epoch : Nat]]
  BY Zenon DEF TypeOK
<1>1. ASSUME NEW r \in Recorders, Claim(r)
      PROVE  TakeTurns' /\ Linked'
  <2>1. /\ UNCHANGED <<file, prev_hash, up>> /\ up
        /\ pc[r] = "idle" /\ pc' = [pc EXCEPT ![r] = "claimed"]
        /\ entry' = [entry EXCEPT ![r].sequence = sequence,
                                  ![r].epoch = crashes]
    BY <1>1, Zenon DEF Claim, Goto
  <2>2. \A s \in Recorders :
           /\ entry'[s].prev_hash = entry[s].prev_hash
           /\ s # r => pc'[s] = pc[s]
           /\ s = r => pc'[s] = "claimed"
    BY <1>0, <2>1, Zenon
  <2> QED
    BY <2>1, <2>2, FileIdle, ZenonT(30) DEF Linked
<1>2. ASSUME NEW r \in Recorders, ReadHead(r)
      PROVE  TakeTurns' /\ Linked'
  <2>1. /\ UNCHANGED <<file, prev_hash, up>> /\ up
        /\ pc[r] = "claimed" /\ pc' = [pc EXCEPT ![r] = "linked"]
        /\ entry' = [entry EXCEPT ![r].prev_hash = prev_hash]
    BY <1>2, Zenon DEF ReadHead, Goto
  <2>2. /\ \A s \in Recorders : s # r => pc[s] \notin Inside /\ pc'[s] = pc[s]
        /\ pc'[r] = "linked" /\ entry'[r].prev_hash = prev_hash
    BY <1>0, <2>1, Zenon DEF Alone, Inside
  <2>3. prev_hash = EndHash
    BY <2>1, <2>2, Zenon DEF Linked, Inside
  <2> QED
    BY <2>1, <2>2, <2>3, FileIdle, Zenon DEF Inside
<1>3. ASSUME NEW r \in Recorders, MoveHead(r)
      PROVE  TakeTurns' /\ Linked'
  <2>1. /\ UNCHANGED <<file, entry, up>> /\ prev_hash' = <<LineOf(r)>>
        /\ pc[r] = "linked" /\ pc' = [pc EXCEPT ![r] = "queued"]
    BY <1>3, Zenon DEF MoveHead, Goto
  <2>2. /\ \A s \in Recorders : s # r => pc[s] \notin Inside /\ pc'[s] = pc[s]
        /\ pc'[r] = "queued"
    BY <1>0, <2>1, Zenon DEF Alone, Inside
  <2>3. entry'[r].prev_hash = EndHash
    BY <2>1, Zenon DEF Linked
  <2> QED
    BY <2>1, <2>2, <2>3, FileIdle, Zenon DEF Inside
<1>4. ASSUME NEW r \in Recorders, WriteLine(r)
      PROVE  TakeTurns' /\ Linked'
  BY <1>4, EventAdded, Zenon DEF WriteLine, Goto
<1>5. ASSUME NEW r \in Recorders, EndLine(r)
      PROVE  TakeTurns' /\ Linked'
  <2>1. /\ up /\ pc[r] = "written" /\ file' = Append(file, Newline)
        /\ UNCHANGED <<entry, prev_hash, up>>
        /\ \E to \in {"appended", "failed"} : pc' = [pc EXCEPT ![r] = to]
    BY <1>5, Zenon DEF EndLine, Goto
  <2> QED
    BY <2>1, NewlineAdded, ZenonT(30)
<1>6. ASSUME NEW r \in Recorders, Drop(r)
      PROVE  TakeTurns' /\ Linked'
  <2>1. UNCHANGED <<file, entry, prev_hash, up, pc>>
    BY <1>6, Zenon DEF Drop
  <2> QED
    BY <2>1, FileIdle, Zenon DEF Linked
<1>7. CASE Crash
  <2>0. file' = <<>> \/ file'[Len(file')] = Newline
    BY <1>7, Zenon DEF Crash
  <2>1. UNCHANGED file
    <3> SUFFICES ASSUME NEW r \in Recorders, file' = Append(file, TornLineOf(r))
                 PROVE  FALSE
      BY <1>7, Zenon DEF Crash
    <3>1. file' # <<>> /\ file'[Len(file')] = TornLineOf(r)
      BY Grown, PiecesTyped, Zenon
    <3> QED
      BY <2>0, <3>1 DEF TornLineOf, Newline
  <2>2. \A s \in Recorders : pc[s] # "written"
    <3> SUFFICES ASSUME NEW s \in Recorders, pc[s] = "written" PROVE FALSE
      BY Zenon
    <3>1. file # <<>> /\ file[Len(file)] = LineOf(s)
      BY Zenon DEF TakeTurns
    <3> QED
      BY <2>0, <2>1, <3>1, LogAssumption DEF LineOf, Newline
  <2>3. /\ \A s \in Recorders : pc'[s] \notin Inside
        /\ ~up'
    BY <1>0, <1>7, Zenon DEF Crash, Inside
  <2> QED
    BY <2>1, <2>2, <2>3, FileIdle, Zenon DEF Inside
<1>8. CASE Open
  <2>1. UNCHANGED <<file, entry, pc>> /\ ~up /\ prev_hash' = recovered_hash
    BY <1>8, Zenon DEF Open
  <2>2. \A s \in Recorders : pc'[s] \notin Inside
    BY <2>1, Zenon DEF Alone
  <2>3. prev_hash' = EndHash
    BY <2>1, ChainRead, Zenon
  <2> QED
    BY <2>1, <2>2, <2>3, FileIdle, Zenon DEF Inside
<1>9. CASE Quiet \/ UNCHANGED logVars
  <2>1. UNCHANGED <<file, entry, prev_hash, up, pc>>
    BY <1>9, Zenon DEF Quiet, logVars
  <2> QED
    BY <2>1, FileIdle, ZenonT(30) DEF Linked
<1> QED
  BY <1>1, <1>2, <1>3, <1>4, <1>5, <1>6, <1>7, <1>8, <1>9, Zenon
     DEF Next, Record

(***************************************************************************)
(* ChainInv is inductive: as long as calls do not overlap, the head is     *)
(* what the last line hashes to.                                           *)
(***************************************************************************)
LEMMA ChainInvariant == Spec => []ChainInv
<1>1. Init => ChainInv
  <2> SUFFICES ASSUME Init PROVE ChainInv
    BY Zenon
  <2>1. /\ file = <<>> /\ DOMAIN file = {} /\ up /\ prev_hash = GENESIS_HASH
        /\ \A r \in Recorders : pc[r] = "idle"
    BY DEF Init
  <2> QED
    BY <2>1, ZenonT(30)
       DEF ChainInv, Spent, Alone, Ordered, Before, TakeTurns, Linked, EndHash,
           Inside
<1>2. TypeOK /\ ChainInv /\ [Next]_logVars => ChainInv'
  <2> SUFFICES ASSUME TypeOK, ChainInv, [Next]_logVars PROVE ChainInv'
    BY Zenon
  <2>1. overlap => overlap'
    BY CallsMove, Zenon
  <2>2. cut => cut'
    BY CallsMove, Zenon
  <2>3. Spent /\ Spent'
    BY SpentStep, Zenon DEF ChainInv
  <2>4. ~overlap' => Alone' /\ Ordered'
    BY <2>1, <2>3, AloneStep, OrderedStep, Zenon DEF ChainInv
  <2>5. ~overlap' /\ ~cut' => TakeTurns' /\ Linked'
    BY <2>1, <2>2, <2>3, ChainStep, Zenon DEF ChainInv
  <2> QED
    BY <2>3, <2>4, <2>5, Zenon DEF ChainInv
<1> QED
  BY <1>1, <1>2, LogTyped, PTL DEF Spec

(***************************************************************************)
(* For every number of callers, crashes, errors and drops: as long as no   *)
(* two calls overlap and no append ends half way, the file verifies and    *)
(* the next event links to its last line (transparency.rs:158-196, 79-109).*)
(***************************************************************************)
THEOREM ChainStaysUnbroken == Spec => []ChainUnbroken
<1>1. TypeOK /\ ChainInv => ChainUnbroken
  <2> SUFFICES ASSUME TypeOK, ChainInv, ~overlap, ~cut, up,
                      \A r \in Recorders : pc[r] \notin Inside
               PROVE  verify_chain /\ prev_hash = recovered_hash
    BY Zenon DEF ChainUnbroken
  <2>1. TakeTurns /\ Linked
    BY Zenon DEF ChainInv
  <2>2. prev_hash = recovered_hash
    BY <2>1, ChainRead, Zenon DEF Linked, Inside
  <2>3. ASSUME NEW l \in Lines
        PROVE  Parses(l) /\ EventOf(l).prev_hash = HashBefore(l[1])
    BY <2>1, TurnLines, LineRead, ChainRead, Zenon DEF Linked, EventOf
  <2> QED
    BY <2>2, <2>3, Zenon DEF verify_chain
<1> QED
  BY <1>1, LogTyped, ChainInvariant, PTL

(***************************************************************************)
(* For every number of callers, crashes, errors and drops: as long as no   *)
(* two calls overlap, the lines that parse have increasing numbers, torn   *)
(* and glued lines between them included (transparency.rs:79-109).         *)
(***************************************************************************)
THEOREM NumbersAlwaysIncrease == Spec => []NumbersIncrease
<1>1. TypeOK /\ ChainInv => NumbersIncrease
  <2> SUFFICES ASSUME TypeOK, ChainInv, ~overlap, NEW l \in Lines, NEW m \in Lines,
                      Parses(l), Parses(m), l[2] < m[1]
               PROVE  EventOf(l).sequence < EventOf(m).sequence
    BY Zenon DEF NumbersIncrease
  <2>1. /\ l[1] \in DOMAIN file /\ m[1] \in DOMAIN file
        /\ ReadableAt(l[1]) /\ ReadableAt(m[1]) /\ l[1] < m[1]
    BY LineRead, Zenon
  <2> QED
    BY <2>1, Zenon DEF ChainInv, Ordered, NumberAt, EventOf
<1> QED
  BY <1>1, LogTyped, ChainInvariant, PTL
=============================================================================
