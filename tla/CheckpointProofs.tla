--------------------------- MODULE CheckpointProofs ---------------------------
(***************************************************************************)
(* Proofs about Checkpoint for any set of writers.  With every overlap and *)
(* every death an install has one signing key and every line of the        *)
(* checkpoint file is signed with it, though a death at the open .pub      *)
(* leaves it unverifiable; as long as no two writes overlap, the lines     *)
(* chain, the anchors never retreat and, without such a death, the file    *)
(* verifies and a store that was not pruned is accepted.                   *)
(*                                                                         *)
(* SignedByInstallKey is not inductive: it says nothing of a key that is   *)
(* about to be written or used.  KeyInv follows the key from O_EXCL, which *)
(* lets one writer through, to the lines.  SerialInv does the same for the *)
(* last line and the tip that the one active writer has read.              *)
(***************************************************************************)
EXTENDS Checkpoint, TLAPS

\* The store underneath: what is live is what lies after the last prune.
StoreInv ==
  /\ total \in Nat /\ base \in Nat /\ base <= total
  /\ live = (base + 1)..total

\* Locals are records and the file is a sequence; prev hashes nest without
\* bound, so their set is left open.
Shapes ==
  /\ \E P, Q : local \in [Writers -> [key : Writers \cup {NoKey}, seq : Q, prev : P, tip : Nat]]
  /\ \E S : checkpoints \in Seq(S)

\* Before a key is written nobody holds one; the one writer that O_EXCL let
\* through writes it; from then on everything agrees with the key file.
KeyInv ==
  /\ keyFile = NoKey =>
       pubFile = NoKey /\ \A w \in Writers : pc[w] \in {"idle", "create", "failed"}
  /\ \A w \in Writers : pc[w] = "write_key" => keyFile = EmptyKey
  /\ \A w, v \in Writers : pc[w] = "write_key" /\ pc[v] = "write_key" => w = v
  /\ \A w \in Writers :
       pc[w] \in {"open_pub", "write_pub"} => keyFile = w /\ local[w].key = w
  /\ \A w \in Writers :
       pc[w] \in {"read", "tip", "append"} => local[w].key = keyFile /\ keyFile \in Writers
  /\ \A i \in DOMAIN checkpoints : checkpoints[i].key = keyFile /\ keyFile \in Writers
  /\ pubFile \in Writers => pubFile = keyFile

\* An empty .pub is somebody's doing.
PubInv == pubFile = EmptyKey => torn \/ \E w \in Writers : pc[w] = "write_pub"

IndInv == TypeOK /\ StoreInv /\ Shapes /\ KeyInv

-------------------------------------------------------------------------------
\* Appending to a sequence of anything.
LEMMA AppendFacts ==
  ASSUME NEW S, NEW s \in Seq(S), NEW e
  PROVE  /\ \E T : Append(s, e) \in Seq(T)
         /\ \A i \in DOMAIN Append(s, e) :
              (i \in DOMAIN s /\ Append(s, e)[i] = s[i]) \/ Append(s, e)[i] = e
<1> DEFINE T == S \cup {e}
<1>1. s \in Seq(T) /\ e \in T
  OBVIOUS
<1>2. Append(s, e) \in Seq(T)
  BY <1>1
<1>3. \A i \in DOMAIN Append(s, e) :
        (i \in DOMAIN s /\ Append(s, e)[i] = s[i]) \/ Append(s, e)[i] = e
  BY <1>1
<1> QED BY <1>2, <1>3

\* The tip a writer reads is a number: the newest stored event or the anchor.
LEMMA TipIsNat ==
  ASSUME StoreInv
  PROVE  chain_tip \in Nat
<1>1. CASE live = {}
  BY <1>1 DEF chain_tip, StoreInv
<1>2. CASE live # {}
  <2>1. total \in live /\ \A k \in live : k <= total
    BY <1>2 DEF StoreInv
  <2>2. \E h \in live : \A k \in live : k <= h
    BY <2>1
  <2>3. (CHOOSE h \in live : \A k \in live : k <= h) \in live
    BY <2>2
  <2> QED BY <1>2, <2>3 DEF chain_tip, StoreInv
<1> QED BY <1>1, <1>2

LEMMA InitHolds == Init => IndInv
<1> SUFFICES ASSUME Init PROVE IndInv
  OBVIOUS
<1> USE WriterAssumption
<1>1. TypeOK
  <2>1. \A i \in DOMAIN checkpoints : FALSE
    BY DEF Init
  <2> QED BY <2>1 DEF Init, TypeOK, Stages
<1>2. StoreInv
  BY DEF Init, ChainInit, StoreInv
<1>3. Shapes
  <2>1. local \in [Writers -> [key : Writers \cup {NoKey}, seq : {0},
                               prev : {GENESIS_CHECKPOINT_HASH}, tip : Nat]]
    BY DEF Init, Blank
  <2>2. checkpoints \in Seq({})
    BY DEF Init
  <2> QED BY <2>1, <2>2 DEF Shapes
<1>4. KeyInv
  BY DEF Init, KeyInv
<1> QED BY <1>1, <1>2, <1>3, <1>4 DEF IndInv

-------------------------------------------------------------------------------
\* The history variable has no part in the rest.
LEMMA WatchKeepsType == TypeOK /\ Watch => overlapped' \in BOOLEAN /\ torn' \in BOOLEAN
BY DEF Watch, TypeOK

\* The store's own steps.
LEMMA StoreKeeps ==
  ASSUME IndInv, StoreStep, Watch
  PROVE  IndInv'
<1>1. StoreInv'
  <2>1. CASE ChainPrune
    BY <2>1 DEF ChainPrune, StoreInv, IndInv
  <2>2. CASE ChainAppend
    BY <2>2 DEF ChainAppend, StoreInv, IndInv
  <2> QED BY <2>1, <2>2 DEF StoreStep
<1>2. (Shapes /\ KeyInv)'
  BY DEF IndInv, StoreStep, cpVars, Shapes, KeyInv
<1>3. TypeOK'
  BY WatchKeepsType DEF IndInv, StoreStep, cpVars, TypeOK
<1> QED BY <1>1, <1>2, <1>3 DEF IndInv

\* A step that leaves the store alone keeps StoreInv.
LEMMA StoreUntouched ==
  ASSUME StoreInv, UNCHANGED chainVars
  PROVE  StoreInv'
BY DEF StoreInv, chainVars

LEMMA FindKeyKeeps ==
  ASSUME IndInv, NEW w \in Writers, FindKey(w), Watch
  PROVE  IndInv'
<1> USE WriterAssumption
<1>1. TypeOK'
  BY WatchKeepsType DEF IndInv, FindKey, TypeOK, Goto, Stages
<1>2. PICK P, Q : local \in [Writers -> [key : Writers \cup {NoKey}, seq : Q, prev : P, tip : Nat]]
  BY DEF IndInv, Shapes
<1>3. keyFile \in Writers => local' = [local EXCEPT ![w].key = keyFile]
  BY DEF FindKey, HaveKey
<1>4. keyFile \notin Writers => local' = local
  BY DEF FindKey, IndInv, TypeOK
<1>5. local' \in [Writers -> [key : Writers \cup {NoKey}, seq : Q, prev : P, tip : Nat]]
  BY <1>2, <1>3, <1>4
<1>6. Shapes'
  BY <1>5 DEF IndInv, Shapes, FindKey
<1>7. KeyInv'
  BY <1>2, <1>3, <1>4 DEF IndInv, KeyInv, TypeOK, FindKey, Goto
<1> QED BY <1>1, <1>6, <1>7, StoreUntouched DEF IndInv, FindKey

LEMMA CreateKeyKeeps ==
  ASSUME IndInv, NEW w \in Writers, CreateKey(w), Watch
  PROVE  IndInv'
<1> USE WriterAssumption
<1>1. TypeOK'
  BY WatchKeepsType DEF IndInv, CreateKey, TypeOK, Goto, Stages
<1>2. Shapes'
  BY DEF IndInv, CreateKey, Shapes
<1>3. KeyInv'
  BY DEF IndInv, CreateKey, KeyInv, TypeOK, Goto
<1> QED BY <1>1, <1>2, <1>3, StoreUntouched DEF IndInv, CreateKey

LEMMA WriteKeyKeeps ==
  ASSUME IndInv, NEW w \in Writers, WriteKey(w), Watch
  PROVE  IndInv'
<1> USE WriterAssumption
<1>1. TypeOK'
  BY WatchKeepsType DEF IndInv, WriteKey, TypeOK, Goto, Stages
<1>2. PICK P, Q : local \in [Writers -> [key : Writers \cup {NoKey}, seq : Q, prev : P, tip : Nat]]
  BY DEF IndInv, Shapes
<1>3. local' \in [Writers -> [key : Writers \cup {NoKey}, seq : Q, prev : P, tip : Nat]]
  BY <1>2 DEF WriteKey, HaveKey
<1>4. Shapes'
  BY <1>3 DEF IndInv, Shapes, WriteKey
<1>5. \A i \in DOMAIN checkpoints : FALSE
  BY DEF IndInv, KeyInv, WriteKey
<1>6. KeyInv'
  BY <1>2, <1>5 DEF IndInv, KeyInv, TypeOK, WriteKey, HaveKey, Goto
<1> QED BY <1>1, <1>4, <1>6, StoreUntouched DEF IndInv, WriteKey

LEMMA PubKeeps ==
  ASSUME IndInv, NEW w \in Writers, OpenPub(w) \/ WritePub(w), Watch
  PROVE  IndInv'
<1> USE WriterAssumption
<1>1. TypeOK'
  BY WatchKeepsType DEF IndInv, OpenPub, WritePub, TypeOK, Goto, Stages
<1>2. Shapes'
  <2>1. local' = local /\ checkpoints' = checkpoints
    BY DEF OpenPub, WritePub
  <2> QED BY <2>1 DEF IndInv, Shapes
<1>3. KeyInv'
  <2>1. CASE OpenPub(w)
    BY <2>1 DEF IndInv, OpenPub, KeyInv, TypeOK, Goto
  <2>2. CASE WritePub(w)
    BY <2>2 DEF IndInv, WritePub, KeyInv, TypeOK, Goto
  <2> QED BY <2>1, <2>2
<1> QED BY <1>1, <1>2, <1>3, StoreUntouched DEF IndInv, OpenPub, WritePub

\* Reading the last line and the tip leaves a writer's key alone.
LEMMA ReadsKeep ==
  ASSUME IndInv, NEW w \in Writers, ReadExisting(w) \/ ReadTip(w), Watch
  PROVE  IndInv'
<1> USE WriterAssumption
<1>1. PICK P, Q : local \in [Writers -> [key : Writers \cup {NoKey}, seq : Q, prev : P, tip : Nat]]
  BY DEF IndInv, Shapes
<1>2. \E p, q : \E t \in Nat :
        local' = [local EXCEPT ![w] = [key |-> local[w].key, seq |-> q, prev |-> p, tip |-> t]]
  <2>1. CASE ReadExisting(w)
    <3> DEFINE q == IF checkpoints = <<>> THEN 0 ELSE Latest.seq + 1
               p == IF checkpoints = <<>> THEN GENESIS_CHECKPOINT_HASH
                                          ELSE checkpoint_content_hash(Latest)
    <3>1. local' = [local EXCEPT ![w] = [key |-> local[w].key, seq |-> q, prev |-> p, tip |-> 0]]
      BY <1>1, <2>1 DEF ReadExisting
    <3> HIDE DEF p, q
    <3> QED BY <3>1
  <2>2. CASE ReadTip(w)
    <3>1. local' = [local EXCEPT ![w].tip = chain_tip]
      BY <2>2 DEF ReadTip
    <3>2. local' = [local EXCEPT ![w] = [key |-> local[w].key, seq |-> local[w].seq,
                                         prev |-> local[w].prev, tip |-> chain_tip]]
      <4> DEFINE R == [key : Writers \cup {NoKey}, seq : Q, prev : P, tip : Nat]
      <4>1. local[w] \in R
        BY <1>1
      <4>2. [local[w] EXCEPT !.tip = chain_tip]
              = [key |-> local[w].key, seq |-> local[w].seq, prev |-> local[w].prev,
                 tip |-> chain_tip]
        BY <4>1
      <4> QED BY <1>1, <3>1, <4>2
    <3> QED BY <3>2, TipIsNat DEF IndInv
  <2> QED BY <2>1, <2>2
<1>3. PICK p, q, t : t \in Nat /\
        local' = [local EXCEPT ![w] = [key |-> local[w].key, seq |-> q, prev |-> p, tip |-> t]]
  BY <1>2
<1>4. local' \in [Writers -> [key : Writers \cup {NoKey}, seq : Q \cup {q}, prev : P \cup {p},
                              tip : Nat]]
  BY <1>1, <1>3
<1>5. /\ UNCHANGED <<chainVars, keyFile, pubFile, checkpoints>>
      /\ pc[w] \in {"read", "tip"}
      /\ \E stage \in {"tip", "append"} : pc' = [pc EXCEPT ![w] = stage]
  BY DEF ReadExisting, ReadTip, Goto
<1>6. Shapes'
  BY <1>4, <1>5 DEF IndInv, Shapes
<1>7. TypeOK'
  BY <1>5, WatchKeepsType DEF IndInv, TypeOK, Stages
<1>8. \A v \in Writers : local'[v].key = local[v].key
  BY <1>1, <1>3
<1>9. KeyInv'
  BY <1>5, <1>8 DEF IndInv, KeyInv, TypeOK
<1> QED BY <1>5, <1>6, <1>7, <1>9, StoreUntouched DEF IndInv

LEMMA AppendLineKeeps ==
  ASSUME IndInv, NEW w \in Writers, AppendLine(w), Watch
  PROVE  IndInv'
<1> USE WriterAssumption
<1>1. PICK P, Q : local \in [Writers -> [key : Writers \cup {NoKey}, seq : Q, prev : P, tip : Nat]]
  BY DEF IndInv, Shapes
<1>2. PICK S : checkpoints \in Seq(S)
  BY DEF IndInv, Shapes
<1>3. checkpoints' = Append(checkpoints, local[w])
  BY DEF AppendLine
<1>4. /\ \E T : checkpoints' \in Seq(T)
      /\ \A i \in DOMAIN checkpoints' :
           (i \in DOMAIN checkpoints /\ checkpoints'[i] = checkpoints[i])
             \/ checkpoints'[i] = local[w]
  BY <1>2, <1>3, AppendFacts
<1>5. local' \in [Writers -> [key : Writers \cup {NoKey}, seq : Q \cup {0},
                              prev : P \cup {GENESIS_CHECKPOINT_HASH}, tip : Nat]]
  BY <1>1 DEF AppendLine, Blank
<1>6. Shapes'
  BY <1>4, <1>5 DEF Shapes
<1>7. local[w].key = keyFile /\ keyFile \in Writers /\ local[w].tip \in Nat
  BY <1>1 DEF IndInv, KeyInv, AppendLine
<1>8. \A i \in DOMAIN checkpoints' : checkpoints'[i].key = keyFile /\ checkpoints'[i].tip \in Nat
  BY <1>4, <1>7 DEF IndInv, KeyInv, TypeOK
<1>9. TypeOK'
  BY <1>7, <1>8, WatchKeepsType DEF IndInv, TypeOK, AppendLine, Goto, Stages
<1>10. \A v \in Writers : v # w => local'[v] = local[v]
  BY <1>1 DEF AppendLine
<1>11. KeyInv'
  BY <1>7, <1>8, <1>10 DEF IndInv, KeyInv, TypeOK, AppendLine, Goto
<1> QED BY <1>6, <1>9, <1>11, StoreUntouched DEF IndInv, AppendLine

LEMMA StopKeeps ==
  ASSUME IndInv, NEW w \in Writers, Stop(w), Watch
  PROVE  IndInv'
<1> USE WriterAssumption
<1>1. TypeOK'
  BY WatchKeepsType DEF IndInv, Stop, TypeOK, Goto, Stages
<1>2. PICK P, Q : local \in [Writers -> [key : Writers \cup {NoKey}, seq : Q, prev : P, tip : Nat]]
  BY DEF IndInv, Shapes
<1>3. local' \in [Writers -> [key : Writers \cup {NoKey}, seq : Q \cup {0},
                              prev : P \cup {GENESIS_CHECKPOINT_HASH}, tip : Nat]]
  BY <1>2 DEF Stop, Blank
<1>4. Shapes'
  BY <1>3 DEF IndInv, Shapes, Stop
<1>5. \A v \in Writers : v # w => local'[v] = local[v]
  BY <1>2 DEF Stop
<1>6. KeyInv'
  BY <1>5 DEF IndInv, KeyInv, TypeOK, Stop, Goto
<1> QED BY <1>1, <1>4, <1>6, StoreUntouched DEF IndInv, Stop

-------------------------------------------------------------------------------
LEMMA NextHolds == IndInv /\ [Next]_vars => IndInv'
<1> SUFFICES ASSUME IndInv, [Next]_vars PROVE IndInv'
  OBVIOUS
<1>1. CASE UNCHANGED vars
  BY <1>1 DEF vars, cpVars, chainVars, IndInv, TypeOK, StoreInv, Shapes, KeyInv
<1>2. CASE Next
  <2>1. Watch
    BY <1>2 DEF Next
  <2>2. CASE StoreStep
    BY <2>1, <2>2, StoreKeeps
  <2>3. ASSUME NEW w \in Writers,
               FindKey(w) \/ CreateKey(w) \/ WriteKey(w) \/ OpenPub(w) \/ WritePub(w)
                 \/ ReadExisting(w) \/ ReadTip(w) \/ AppendLine(w) \/ Stop(w)
        PROVE  IndInv'
    BY <2>1, <2>3, FindKeyKeeps, CreateKeyKeeps, WriteKeyKeeps, PubKeeps, ReadsKeep,
       AppendLineKeeps, StopKeeps
  <2> QED BY <1>2, <2>2, <2>3 DEF Next
<1> QED BY <1>1, <1>2

\* Only the writer at the open .pub empties it, and leaving it so tears it.
LEMMA PubInvHolds ==
  ASSUME IndInv, PubInv, [Next]_vars
  PROVE  PubInv'
<1> USE WriterAssumption
<1>1. CASE UNCHANGED vars
  BY <1>1 DEF vars, cpVars, PubInv
<1>2. CASE Next
  <2>1. /\ torn => torn'
        /\ \A w \in Writers : pc[w] = "write_pub" /\ pc'[w] = "idle" => torn'
    BY <1>2 DEF Next, Watch, IndInv, TypeOK
  <2>2. CASE StoreStep
    BY <2>1, <2>2 DEF StoreStep, cpVars, PubInv
  <2>3. ASSUME NEW w \in Writers, OpenPub(w) \/ WritePub(w) PROVE PubInv'
    BY <2>1, <2>3 DEF OpenPub, WritePub, Goto, PubInv, IndInv, TypeOK
  <2>4. ASSUME NEW w \in Writers, Stop(w) PROVE PubInv'
    BY <2>1, <2>4 DEF Stop, Goto, PubInv, IndInv, TypeOK
  <2>5. ASSUME NEW w \in Writers,
               FindKey(w) \/ CreateKey(w) \/ WriteKey(w) \/ ReadExisting(w) \/ ReadTip(w)
                 \/ AppendLine(w)
        PROVE  PubInv'
    <3>1. pubFile' = pubFile /\ pc[w] # "write_pub" /\ \A v \in Writers : v # w => pc'[v] = pc[v]
      BY <2>5 DEF FindKey, CreateKey, WriteKey, ReadExisting, ReadTip, AppendLine, Goto, IndInv,
                  TypeOK
    <3> QED BY <2>1, <3>1 DEF PubInv
  <2> QED BY <1>2, <2>2, <2>3, <2>4, <2>5 DEF Next
<1> QED BY <1>1, <1>2

LEMMA Inductive == Spec => []IndInv
<1>1. Init => IndInv
  BY InitHolds
<1>2. IndInv /\ [Next]_vars => IndInv'
  BY NextHolds
<1> QED BY <1>1, <1>2, PTL DEF Spec

LEMMA PubIsPinned == Spec => []PubInv
<1>1. Init => PubInv
  BY WriterAssumption DEF Init, PubInv
<1>2. IndInv /\ PubInv /\ [Next]_vars => PubInv'
  BY PubInvHolds
<1> QED BY <1>1, <1>2, Inductive, PTL DEF Spec

\* Key files, lines and writers keep their types, and a line's key is a
\* written key: a writer never signs with what an empty file holds
\* (checkpoint.py:108-139).
THEOREM TypeCorrect == Spec => []TypeOK
<1>1. IndInv => TypeOK
  BY DEF IndInv
<1> QED BY <1>1, Inductive, PTL

\* Every line verifies under the key a verifier loads, for any number of
\* writers racing to create it and dying anywhere, unless .pub is empty; and
\* .pub is empty only while a writer has it open and unwritten or because one
\* died just then (checkpoint.py:108-157).
THEOREM InstallKeySigns == Spec => []SignedByInstallKey
<1>1. IndInv /\ PubInv => SignedByInstallKey
  BY WriterAssumption DEF IndInv, KeyInv, PubInv, TypeOK, SignedByInstallKey, Signed,
                          load_public_key
<1> QED BY <1>1, Inductive, PubIsPinned, PTL

\* A key that has been written is never replaced (checkpoint.py:126-131).
THEOREM KeyIsKept == Spec => KeyNeverReplaced
<1>1. IndInv /\ [Next]_vars => [(keyFile \in Writers) => keyFile' = keyFile]_vars
  <2> SUFFICES ASSUME IndInv, Next, keyFile \in Writers PROVE keyFile' = keyFile
    OBVIOUS
  <2>1. CASE StoreStep
    BY <2>1 DEF StoreStep, cpVars
  <2>2. ASSUME NEW w \in Writers,
               FindKey(w) \/ CreateKey(w) \/ WriteKey(w) \/ OpenPub(w) \/ WritePub(w)
                 \/ ReadExisting(w) \/ ReadTip(w) \/ AppendLine(w) \/ Stop(w)
        PROVE  keyFile' = keyFile
    BY <2>2, WriterAssumption DEF IndInv, KeyInv, FindKey, CreateKey, WriteKey, OpenPub,
       WritePub, ReadExisting, ReadTip, AppendLine, Stop
  <2> QED BY <2>1, <2>2 DEF Next
<1> QED BY <1>1, Inductive, PTL DEF Spec, KeyNeverReplaced

-------------------------------------------------------------------------------
(* One write at a time.                                                     *)

\* What the next line has to chain from.
LastHash ==
  IF checkpoints = <<>> THEN GENESIS_CHECKPOINT_HASH ELSE checkpoint_content_hash(Latest)

TipsSorted == \A i, j \in DOMAIN checkpoints : i < j => checkpoints[i].tip <= checkpoints[j].tip

\* No anchor is ahead of the store.  A writer that is alone still holds the
\* last line's hash when it appends, and a tip no earlier than any anchored.
SerialInv ==
  /\ \A i \in DOMAIN checkpoints : checkpoints[i].tip <= total
  /\ \A w \in Writers : local[w].tip <= total
  /\ ~overlapped =>
       /\ \A w, v \in Running : w = v
       /\ Chained /\ TipsSorted
       /\ \A w \in Writers : pc[w] \in {"open_pub", "write_pub"} => checkpoints = <<>>
       /\ \A w \in Writers : pc[w] \in {"tip", "append"} => local[w].prev = LastHash
       /\ \A w \in Writers : pc[w] = "append" =>
            \A i \in DOMAIN checkpoints : checkpoints[i].tip <= local[w].tip

\* The tip a writer reads is the last event ever logged, pruned or not.
LEMMA TipIsTotal ==
  ASSUME StoreInv
  PROVE  chain_tip = total
<1>1. CASE live = {}
  BY <1>1 DEF chain_tip, StoreInv
<1>2. CASE live # {}
  <2>1. total \in live /\ \A k \in live : k <= total
    BY <1>2 DEF StoreInv
  <2> DEFINE h == CHOOSE x \in live : \A k \in live : k <= x
  <2>2. h \in live /\ \A k \in live : k <= h
    BY <2>1
  <2>3. chain_tip = h
    BY <1>2 DEF chain_tip
  <2> HIDE DEF h
  <2>4. h = total
    BY <2>1, <2>2 DEF StoreInv
  <2> QED BY <2>3, <2>4
<1> QED BY <1>1, <1>2

LEMMA OverlapIsKept ==
  ASSUME TypeOK, Watch, ~overlapped'
  PROVE  ~overlapped /\ \A w, v \in Running' : w = v
BY DEF Watch, TypeOK

\* Shapes, with the fields a line has.
LEMMA LocalFacts ==
  ASSUME Shapes, NEW w \in Writers
  PROVE  local[w].tip \in Nat
BY DEF Shapes

\* The file and the store's end stay; w moves, to a stage where it holds what
\* it should.
LEMMA WriterMoves ==
  ASSUME IndInv, SerialInv, Watch, NEW w \in Writers,
         UNCHANGED <<chainVars, checkpoints>>,
         \A v \in Writers : v # w => pc'[v] = pc[v] /\ local'[v].tip = local[v].tip
                                                   /\ local'[v].prev = local[v].prev,
         local'[w].tip <= total,
         ~overlapped /\ pc'[w] \in {"open_pub", "write_pub"} => checkpoints = <<>>,
         ~overlapped /\ pc'[w] \in {"tip", "append"} => local'[w].prev = LastHash,
         ~overlapped /\ pc'[w] = "append" =>
           \A i \in DOMAIN checkpoints : checkpoints[i].tip <= local'[w].tip
  PROVE  SerialInv'
<1>1. LastHash' = LastHash /\ (Chained' <=> Chained) /\ (TipsSorted' <=> TipsSorted)
  BY DEF LastHash, Latest, Chained, TipsSorted, checkpoint_content_hash
<1>2. total' = total
  BY DEF chainVars
<1>3. /\ \A i \in DOMAIN checkpoints' : checkpoints'[i].tip <= total'
      /\ \A v \in Writers : local'[v].tip <= total'
  BY <1>2 DEF SerialInv
<1>4. ASSUME ~overlapped'
      PROVE  /\ \A u, v \in Running' : u = v
             /\ (Chained /\ TipsSorted)'
             /\ \A v \in Writers : pc'[v] \in {"open_pub", "write_pub"} => checkpoints' = <<>>
             /\ \A v \in Writers : pc'[v] \in {"tip", "append"} => local'[v].prev = LastHash'
             /\ \A v \in Writers : pc'[v] = "append" =>
                  \A i \in DOMAIN checkpoints' : checkpoints'[i].tip <= local'[v].tip
  <2>1. ~overlapped /\ \A u, v \in Running' : u = v
    BY <1>4, OverlapIsKept DEF IndInv
  <2> QED BY <1>1, <2>1 DEF SerialInv
<1> QED BY <1>3, <1>4 DEF SerialInv

LEMMA StoreSerial ==
  ASSUME IndInv, SerialInv, Watch, StoreStep
  PROVE  SerialInv'
<1>1. total' \in Nat /\ total <= total' /\ UNCHANGED <<checkpoints, pc, local>>
  BY DEF StoreStep, ChainPrune, ChainAppend, IndInv, StoreInv, cpVars
<1>2. LastHash' = LastHash /\ (Chained' <=> Chained) /\ (TipsSorted' <=> TipsSorted)
  BY <1>1 DEF LastHash, Latest, Chained, TipsSorted, checkpoint_content_hash
<1>3. /\ \A i \in DOMAIN checkpoints' : checkpoints'[i].tip <= total'
      /\ \A v \in Writers : local'[v].tip <= total'
  <2>1. \A v \in Writers : local[v].tip \in Nat
    BY LocalFacts DEF IndInv
  <2> QED BY <1>1, <2>1 DEF SerialInv, IndInv, TypeOK, StoreInv
<1>4. ~overlapped' => ~overlapped /\ \A w, v \in Running' : w = v
  BY OverlapIsKept DEF IndInv
<1> QED BY <1>1, <1>2, <1>3, <1>4 DEF SerialInv

LEMMA KeyStepsSerial ==
  ASSUME IndInv, SerialInv, Watch, NEW w \in Writers,
         FindKey(w) \/ CreateKey(w) \/ WriteKey(w) \/ OpenPub(w) \/ WritePub(w)
  PROVE  SerialInv'
<1>1. PICK P, Q : local \in [Writers -> [key : Writers \cup {NoKey}, seq : Q, prev : P, tip : Nat]]
  BY DEF IndInv, Shapes
<1>2. local' = local \/ \E k : local' = [local EXCEPT ![w].key = k]
  BY DEF FindKey, CreateKey, WriteKey, OpenPub, WritePub, HaveKey
<1>3. \A v \in Writers : local'[v].tip = local[v].tip /\ local'[v].prev = local[v].prev
  BY <1>1, <1>2
<1>4. /\ UNCHANGED <<chainVars, checkpoints>>
      /\ \E st \in {"create", "failed", "read", "write_key", "open_pub", "write_pub"} : Goto(w, st)
  BY DEF FindKey, CreateKey, WriteKey, OpenPub, WritePub
<1>5. pc'[w] \notin {"tip", "append"} /\ \A v \in Writers : v # w => pc'[v] = pc[v]
  BY <1>4 DEF Goto, IndInv, TypeOK
<1>6. ~overlapped /\ pc'[w] \in {"open_pub", "write_pub"} => checkpoints = <<>>
  <2>1. CASE WriteKey(w)
    <3>1. keyFile \notin Writers
      BY <2>1, WriterAssumption DEF WriteKey, IndInv, KeyInv
    <3>2. DOMAIN checkpoints = {}
      BY <3>1 DEF IndInv, KeyInv
    <3> QED BY <3>2 DEF IndInv, Shapes
  <2>2. CASE OpenPub(w)
    BY <2>2 DEF OpenPub, SerialInv
  <2>3. CASE FindKey(w) \/ CreateKey(w) \/ WritePub(w)
    BY <2>3 DEF FindKey, CreateKey, WritePub, Goto, IndInv, TypeOK
  <2> QED BY <2>1, <2>2, <2>3
<1> QED BY <1>3, <1>4, <1>5, <1>6, WriterMoves DEF SerialInv

LEMMA ReadsSerial ==
  ASSUME IndInv, SerialInv, Watch, NEW w \in Writers, ReadExisting(w) \/ ReadTip(w)
  PROVE  SerialInv'
<1>1. PICK P, Q : local \in [Writers -> [key : Writers \cup {NoKey}, seq : Q, prev : P, tip : Nat]]
  BY DEF IndInv, Shapes
<1>2. total \in Nat
  BY DEF IndInv, StoreInv
<1>3. CASE ReadExisting(w)
  <2> DEFINE q == IF checkpoints = <<>> THEN 0 ELSE Latest.seq + 1
             new == [key |-> local[w].key, seq |-> q, prev |-> LastHash, tip |-> 0]
  <2>1. local' = [local EXCEPT ![w] = new]
    BY <1>1, <1>3 DEF ReadExisting, LastHash
  <2>2. new.prev = LastHash /\ new.tip = 0
    OBVIOUS
  <2> HIDE DEF new
  <2>3. local'[w] = new /\ \A v \in Writers : v # w => local'[v] = local[v]
    BY <1>1, <2>1
  <2>4. /\ UNCHANGED <<chainVars, checkpoints>> /\ pc'[w] = "tip"
        /\ \A v \in Writers : v # w => pc'[v] = pc[v]
    BY <1>3 DEF ReadExisting, Goto, IndInv, TypeOK
  <2>5. local'[w].tip <= total /\ local'[w].prev = LastHash
    BY <1>2, <2>2, <2>3
  <2> QED BY <2>3, <2>4, <2>5, WriterMoves
<1>4. CASE ReadTip(w)
  <2>1. local' = [local EXCEPT ![w].tip = total]
    BY <1>4, TipIsTotal DEF ReadTip, IndInv
  <2>2. /\ local'[w].tip = total /\ local'[w].prev = local[w].prev
        /\ \A v \in Writers : v # w => local'[v] = local[v]
    BY <1>1, <2>1
  <2>3. /\ UNCHANGED <<chainVars, checkpoints>> /\ pc[w] = "tip" /\ pc'[w] = "append"
        /\ \A v \in Writers : v # w => pc'[v] = pc[v]
    BY <1>4 DEF ReadTip, Goto, IndInv, TypeOK
  <2>4. ~overlapped => local'[w].prev = LastHash
    BY <2>2, <2>3 DEF SerialInv
  <2>5. \A i \in DOMAIN checkpoints : checkpoints[i].tip <= local'[w].tip
    BY <2>2 DEF SerialInv
  <2>6. local'[w].tip <= total
    BY <1>2, <2>2
  <2> QED BY <2>2, <2>3, <2>4, <2>5, <2>6, WriterMoves
<1> QED BY <1>3, <1>4

LEMMA StopSerial ==
  ASSUME IndInv, SerialInv, Watch, NEW w \in Writers, Stop(w)
  PROVE  SerialInv'
<1>1. PICK P, Q : local \in [Writers -> [key : Writers \cup {NoKey}, seq : Q, prev : P, tip : Nat]]
  BY DEF IndInv, Shapes
<1>2. local'[w].tip = 0 /\ \A v \in Writers : v # w => local'[v] = local[v]
  BY <1>1 DEF Stop, Blank
<1>3. /\ UNCHANGED <<chainVars, checkpoints>> /\ pc'[w] = "idle"
      /\ \A v \in Writers : v # w => pc'[v] = pc[v]
  BY DEF Stop, Goto, IndInv, TypeOK
<1>4. local'[w].tip <= total
  BY <1>2 DEF IndInv, StoreInv
<1> QED BY <1>2, <1>3, <1>4, WriterMoves

\* What appending does to the lines and to the last of them.
LEMMA AppendIndices ==
  ASSUME NEW S, NEW s \in Seq(S), NEW e
  PROVE  /\ Len(s) \in Nat /\ DOMAIN s = 1..Len(s)
         /\ Len(Append(s, e)) = Len(s) + 1
         /\ DOMAIN Append(s, e) = 1..(Len(s) + 1)
         /\ Append(s, e)[Len(s) + 1] = e
         /\ \A i \in 1..Len(s) : Append(s, e)[i] = s[i]
         /\ s = <<>> <=> Len(s) = 0
<1> DEFINE T == S \cup {e}
<1>1. s \in Seq(T) /\ e \in T
  OBVIOUS
<1> HIDE DEF T
<1>2. Append(s, e) \in Seq(T) /\ Len(s) \in Nat /\ DOMAIN s = 1..Len(s)
  BY <1>1
<1>3. Len(Append(s, e)) = Len(s) + 1 /\ DOMAIN Append(s, e) = 1..(Len(s) + 1)
  BY <1>1
<1>4. Append(s, e)[Len(s) + 1] = e /\ \A i \in 1..Len(s) : Append(s, e)[i] = s[i]
  BY <1>1
<1>5. s = <<>> <=> Len(s) = 0
  BY <1>1
<1> QED BY <1>2, <1>3, <1>4, <1>5

\* The line of a writer that is alone chains from the last one and anchors no
\* less than any other.
LEMMA AppendSerial ==
  ASSUME IndInv, SerialInv, Watch, NEW w \in Writers, AppendLine(w)
  PROVE  SerialInv'
<1> DEFINE n == Len(checkpoints)
<1>1. PICK P, Q : local \in [Writers -> [key : Writers \cup {NoKey}, seq : Q, prev : P, tip : Nat]]
  BY DEF IndInv, Shapes
<1>2. PICK S : checkpoints \in Seq(S)
  BY DEF IndInv, Shapes
<1>3. /\ n \in Nat /\ DOMAIN checkpoints = 1..n /\ DOMAIN checkpoints' = 1..(n + 1)
      /\ checkpoints'[n + 1] = local[w] /\ \A i \in 1..n : checkpoints'[i] = checkpoints[i]
      /\ checkpoints = <<>> <=> n = 0
  BY <1>2, AppendIndices DEF AppendLine
<1>4. local'[w].tip = 0 /\ \A v \in Writers : v # w => local'[v] = local[v]
  BY <1>1 DEF AppendLine, Blank
<1>5. /\ total' = total /\ pc[w] = "append" /\ pc'[w] = "idle"
      /\ \A v \in Writers : v # w => pc'[v] = pc[v]
  BY DEF AppendLine, Goto, IndInv, TypeOK, chainVars
<1>6. total \in Nat /\ local[w].tip \in Nat
  BY <1>1 DEF IndInv, StoreInv
<1>7. /\ \A i \in DOMAIN checkpoints' : checkpoints'[i].tip <= total'
      /\ \A v \in Writers : local'[v].tip <= total'
  <2>1. \A i \in 1..(n + 1) : i \in 1..n \/ i = n + 1
    BY <1>3
  <2>2. \A i \in DOMAIN checkpoints' : checkpoints'[i].tip <= total
    BY <1>3, <2>1 DEF SerialInv
  <2>3. \A v \in Writers : local'[v].tip <= total
    BY <1>4, <1>6 DEF SerialInv
  <2> QED BY <1>5, <2>2, <2>3
<1>8. ASSUME ~overlapped'
      PROVE  /\ \A u, v \in Running' : u = v
             /\ Chained' /\ TipsSorted'
             /\ \A v \in Writers : pc'[v] \notin {"open_pub", "write_pub", "tip", "append"}
  <2>1. ~overlapped /\ \A u, v \in Running' : u = v
    BY <1>8, OverlapIsKept DEF IndInv
  <2>2. \A v \in Writers : v # w => pc[v] \notin {"open_pub", "write_pub", "tip", "append"}
    BY <1>5, <2>1 DEF SerialInv, Running
  <2>3. /\ Chained /\ TipsSorted /\ local[w].prev = LastHash
        /\ \A i \in 1..n : checkpoints[i].tip <= local[w].tip
    BY <1>3, <1>5, <2>1 DEF SerialInv
  <2>4. ASSUME NEW i \in 1..(n + 1)
        PROVE  checkpoints'[i].prev = IF i = 1 THEN GENESIS_CHECKPOINT_HASH
                                      ELSE checkpoint_content_hash(checkpoints'[i - 1])
    <3>1. CASE i \in 1..n
      <4>1. i # 1 => i - 1 \in 1..n
        BY <1>3, <3>1
      <4> QED BY <1>3, <2>3, <3>1, <4>1 DEF Chained
    <3>2. CASE i = n + 1 /\ n = 0
      BY <1>3, <2>3, <3>2 DEF LastHash
    <3>3. CASE i = n + 1 /\ n # 0
      <4>1. i # 1 /\ i - 1 = n /\ n \in 1..n
        BY <1>3, <3>3
      <4>2. checkpoints'[i - 1] = Latest /\ LastHash = checkpoint_content_hash(Latest)
        BY <1>3, <3>3, <4>1 DEF LastHash, Latest
      <4> QED BY <1>3, <2>3, <3>3, <4>1, <4>2
    <3> QED BY <1>3, <3>1, <3>2, <3>3
  <2>5. Chained'
    BY <1>3, <2>4 DEF Chained, checkpoint_content_hash
  <2>6. TipsSorted'
    <3>1. ASSUME NEW i \in 1..(n + 1), NEW j \in 1..(n + 1), i < j
          PROVE  checkpoints'[i].tip <= checkpoints'[j].tip
      <4>1. i \in 1..n
        BY <1>3, <3>1
      <4>2. CASE j \in 1..n
        BY <1>3, <2>3, <3>1, <4>1, <4>2 DEF TipsSorted
      <4>3. CASE j = n + 1
        BY <1>3, <2>3, <4>1, <4>3
      <4> QED BY <1>3, <4>2, <4>3
    <3> QED BY <1>3, <3>1 DEF TipsSorted
  <2> QED BY <1>5, <2>1, <2>2, <2>5, <2>6
<1> QED BY <1>7, <1>8 DEF SerialInv

LEMMA SerialHolds == Spec => []SerialInv
<1>1. Init => SerialInv
  <2> SUFFICES ASSUME Init PROVE SerialInv
    OBVIOUS
  <2>1. \A i \in DOMAIN checkpoints : FALSE
    BY DEF Init
  <2>2. total = 0 /\ \A w \in Writers : local[w].tip = 0 /\ pc[w] = "idle"
    BY DEF Init, ChainInit, Blank
  <2> QED BY <2>1, <2>2 DEF SerialInv, Running, Chained, TipsSorted
<1>2. IndInv /\ SerialInv /\ [Next]_vars => SerialInv'
  <2> SUFFICES ASSUME IndInv, SerialInv, [Next]_vars PROVE SerialInv'
    OBVIOUS
  <2>1. CASE UNCHANGED vars
    <3>1. UNCHANGED <<total, pc, local, checkpoints, overlapped>>
      BY <2>1 DEF vars, cpVars, chainVars
    <3> QED BY <3>1 DEF SerialInv, Running, Chained, TipsSorted, LastHash, Latest,
                        checkpoint_content_hash
  <2>2. CASE Next
    BY <2>2, StoreSerial, KeyStepsSerial, ReadsSerial, AppendSerial, StopSerial DEF Next
  <2> QED BY <2>1, <2>2
<1> QED BY <1>1, <1>2, Inductive, PTL DEF Spec

\* After any number of serial writes the lines chain, wherever a writer died
\* and whatever was logged or pruned meanwhile, and the file verifies unless a
\* writer died between opening .pub and writing it (checkpoint.py:138,
\* 193-288).
THEOREM SerialFileVerifies == Spec => []FileVerifies
<1>1. IndInv /\ SerialInv /\ SignedByInstallKey => FileVerifies
  <2> SUFFICES ASSUME IndInv, SerialInv, SignedByInstallKey, ~overlapped
               PROVE  Chained /\ (~torn => Signed)
    BY DEF FileVerifies, verify_checkpoint_file
  <2>1. checkpoints = <<>> => Signed
    BY DEF Signed
  <2>2. CASE pubFile = EmptyKey
    BY <2>1, <2>2 DEF SerialInv, SignedByInstallKey
  <2>3. CASE pubFile # EmptyKey
    BY <2>3 DEF SerialInv, SignedByInstallKey
  <2> QED BY <2>2, <2>3
<1> QED BY <1>1, Inductive, SerialHolds, InstallKeySigns, PTL

\* A later line anchors at least as much history as an earlier one, prunes
\* that empty the table included (checkpoint.py:207-251, log.py's last_hash).
THEOREM AnchorsNeverRetreat == Spec => []AnchorsAdvance
<1>1. SerialInv => AnchorsAdvance
  BY DEF SerialInv, TipsSorted, AnchorsAdvance
<1> QED BY <1>1, SerialHolds, PTL

\* `checkpoint verify` accepts an untouched store while the event the last
\* line anchors is stored, unless a writer died between opening .pub and
\* writing it (checkpoint.py:138, 291-346).
THEOREM UntouchedStoreAccepted == Spec => []AcceptsUnpruned
<1>1. IndInv /\ SerialInv /\ FileVerifies => AcceptsUnpruned
  <2> SUFFICES ASSUME IndInv, SerialInv, FileVerifies, ~overlapped, ~torn,
                      checkpoints # <<>> => Latest.tip = 0 \/ Latest.tip > base
               PROVE  verify_against_events
    BY DEF AcceptsUnpruned
  <2>1. verify_checkpoint_file
    BY DEF FileVerifies
  <2>2. ASSUME checkpoints # <<>> PROVE Latest.tip = 0 \/ Latest.tip \in live
    <3>1. PICK S : checkpoints \in Seq(S)
      BY DEF IndInv, Shapes
    <3>2. Len(checkpoints) \in DOMAIN checkpoints
      BY <2>2, <3>1
    <3>3. Latest.tip \in Nat /\ Latest.tip <= total
      BY <3>2 DEF IndInv, TypeOK, SerialInv, Latest
    <3> QED BY <2>2, <3>3 DEF IndInv, StoreInv
  <2> QED BY <2>1, <2>2 DEF verify_against_events
<1> QED BY <1>1, Inductive, SerialHolds, SerialFileVerifies, PTL
===============================================================================
