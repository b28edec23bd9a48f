------------------------------ MODULE Checkpoint ------------------------------
(***************************************************************************)
(* integrity/checkpoint.py: `checkpoint write` processes that sign the     *)
(* event chain's tip into an append-only file, and the two verifiers.  The *)
(* event store itself is AuditChain, which EventLog implements.            *)
(*                                                                         *)
(* A checkpoint_hash is the tuple of what it hashes (SHA-256 is taken to   *)
(* be collision free); a signature is the key it was made with.            *)
(***************************************************************************)
EXTENDS AuditChain, Sequences

CONSTANTS
  Writers,        \* `checkpoint write` processes; each may generate one key
  NoKey,          \* the key file or its .pub does not exist
  EmptyKey,       \* the key file, or its .pub, exists and holds no bytes yet
  MaxEvents,      \* bound: events appended
  MaxCheckpoints  \* bound: entries in the checkpoint file

ASSUME WriterAssumption ==
  /\ NoKey \notin Writers /\ EmptyKey \notin Writers /\ NoKey # EmptyKey
  /\ MaxEvents \in Nat /\ MaxCheckpoints \in Nat

VARIABLES
  keyFile,      \* the private key file: NoKey, EmptyKey or whose key it holds
  pubFile,      \* <key>.pub
  checkpoints,  \* the lines of the checkpoint file
  pc,           \* where each writer is in write_checkpoint
  local,        \* what it read and has yet to use
  overlapped,   \* history: two writers have been at work at once
  torn          \* history: a writer died between opening .pub and writing it

cpVars == <<keyFile, pubFile, checkpoints, pc, local>>
vars == <<chainVars, cpVars, overlapped, torn>>

GENESIS_CHECKPOINT_HASH == <<>>
Blank == [key |-> NoKey, seq |-> 0, prev |-> GENESIS_CHECKPOINT_HASH, tip |-> 0]
Stages == {"idle", "create", "write_key", "open_pub", "write_pub", "read", "tip", "append",
           "failed"}

\* Mutant: the retention checkpoint is not consulted.
chain_tip_unanchored ==
  IF live = {} THEN 0 ELSE CHOOSE h \in live : \A k \in live : k <= h

\* last_hash(conn): the newest stored row, else what the last prune recorded.
chain_tip ==
  IF live = {} THEN base ELSE CHOOSE h \in live : \A k \in live : k <= h

checkpoint_content_hash(cp) == <<cp.seq, cp.tip, cp.prev>>

Latest == checkpoints[Len(checkpoints)]

Init ==
  /\ ChainInit
  /\ keyFile = NoKey /\ pubFile = NoKey
  /\ checkpoints = <<>>
  /\ pc = [w \in Writers |-> "idle"]
  /\ local = [w \in Writers |-> Blank]
  /\ overlapped = FALSE /\ torn = FALSE

\* Gateways and the CLI log events; `retention prune` cuts old ones.
StoreStep ==
  /\ ChainPrune \/ (total < MaxEvents /\ ChainAppend)
  /\ UNCHANGED cpVars

Goto(w, stage) == pc' = [pc EXCEPT ![w] = stage]
HaveKey(w, k) == local' = [local EXCEPT ![w].key = k]

-------------------------------------------------------------------------------
(* load_or_create_signing_key.                                              *)

\* Mutant: whatever the file holds is taken for a key.
FindKeyTrusting(w) ==
  /\ pc[w] = "idle"
  /\ Len(checkpoints) < MaxCheckpoints
  /\ IF keyFile = NoKey THEN Goto(w, "create") /\ UNCHANGED local
                        ELSE Goto(w, "read") /\ HaveKey(w, keyFile)
  /\ UNCHANGED <<chainVars, keyFile, pubFile, checkpoints>>

\* key_path.exists(): read it.  A file another process has created and not
\* yet written is empty, and from_private_bytes raises ValueError.
FindKey(w) ==
  /\ pc[w] = "idle"
  /\ Len(checkpoints) < MaxCheckpoints
  /\ CASE keyFile = NoKey    -> Goto(w, "create") /\ UNCHANGED local
       [] keyFile = EmptyKey -> Goto(w, "failed") /\ UNCHANGED local
       [] OTHER              -> Goto(w, "read") /\ HaveKey(w, keyFile)
  /\ UNCHANGED <<chainVars, keyFile, pubFile, checkpoints>>

\* Mutant: opened for writing without O_EXCL.
CreateKeyTruncating(w) ==
  /\ pc[w] = "create"
  /\ keyFile' = EmptyKey
  /\ Goto(w, "write_key")
  /\ UNCHANGED <<chainVars, pubFile, checkpoints, local>>

\* os.open(O_CREAT | O_EXCL) stands outside the try block: the loser of a
\* race gets FileExistsError and the command fails.
CreateKey(w) ==
  /\ pc[w] = "create"
  /\ IF keyFile = NoKey
       THEN keyFile' = EmptyKey /\ Goto(w, "write_key")
       ELSE UNCHANGED keyFile /\ Goto(w, "failed")
  /\ UNCHANGED <<chainVars, pubFile, checkpoints, local>>

WriteKey(w) ==
  /\ pc[w] = "write_key"
  /\ keyFile' = w
  /\ HaveKey(w, w)
  /\ Goto(w, "open_pub")
  /\ UNCHANGED <<chainVars, pubFile, checkpoints>>

\* pub_path.write_bytes opens the file, which creates or truncates it ...
OpenPub(w) ==
  /\ pc[w] = "open_pub"
  /\ pubFile' = EmptyKey
  /\ Goto(w, "write_pub")
  /\ UNCHANGED <<chainVars, keyFile, checkpoints, local>>

\* ... and then writes it.
WritePub(w) ==
  /\ pc[w] = "write_pub"
  /\ pubFile' = w
  /\ Goto(w, "read")
  /\ UNCHANGED <<chainVars, keyFile, checkpoints, local>>

-------------------------------------------------------------------------------
(* write_checkpoint, once it has its key.                                   *)

\* Mutant: the first line is taken instead of the last.
ReadExistingFirst(w) ==
  /\ pc[w] = "read"
  /\ local' = [local EXCEPT ![w] =
       [key  |-> @.key,
        seq  |-> IF checkpoints = <<>> THEN 0 ELSE Latest.seq + 1,
        prev |-> IF checkpoints = <<>> THEN GENESIS_CHECKPOINT_HASH
                                       ELSE checkpoint_content_hash(checkpoints[1]),
        tip  |-> 0]]
  /\ Goto(w, "tip")
  /\ UNCHANGED <<chainVars, keyFile, pubFile, checkpoints>>

\* The last line of the file gives seq and prev_checkpoint_hash.
ReadExisting(w) ==
  /\ pc[w] = "read"
  /\ local' = [local EXCEPT ![w] =
       [key  |-> @.key,
        seq  |-> IF checkpoints = <<>> THEN 0 ELSE Latest.seq + 1,
        prev |-> IF checkpoints = <<>> THEN GENESIS_CHECKPOINT_HASH
                                       ELSE checkpoint_content_hash(Latest),
        tip  |-> 0]]
  /\ Goto(w, "tip")
  /\ UNCHANGED <<chainVars, keyFile, pubFile, checkpoints>>

ReadTip(w) ==
  /\ pc[w] = "tip"
  /\ local' = [local EXCEPT ![w].tip = chain_tip]
  /\ Goto(w, "append")
  /\ UNCHANGED <<chainVars, keyFile, pubFile, checkpoints>>

\* Hash, sign and append one line.
AppendLine(w) ==
  /\ pc[w] = "append"
  /\ checkpoints' = Append(checkpoints, local[w])
  /\ local' = [local EXCEPT ![w] = Blank]
  /\ Goto(w, "idle")
  /\ UNCHANGED <<chainVars, keyFile, pubFile>>

\* The process dies, or a failed command has reported its exception; cron
\* starts the next one.
Stop(w) ==
  /\ pc[w] # "idle"
  /\ local' = [local EXCEPT ![w] = Blank]
  /\ Goto(w, "idle")
  /\ UNCHANGED <<chainVars, keyFile, pubFile, checkpoints>>

Running == {w \in Writers : pc[w] \notin {"idle", "failed"}}

\* History.  A schedule may start a write before the last one ended, and a
\* writer may die at its open .pub.
Watch ==
  /\ overlapped' = (overlapped \/ \E w, v \in Running' : w # v)
  /\ torn' = (torn \/ \E w \in Writers : pc[w] = "write_pub" /\ pc'[w] = "idle")

Next ==
  /\ \/ StoreStep
     \/ \E w \in Writers :
          \/ FindKey(w) \/ CreateKey(w) \/ WriteKey(w) \/ OpenPub(w) \/ WritePub(w)
          \/ ReadExisting(w) \/ ReadTip(w) \/ AppendLine(w)
          \/ Stop(w)
  /\ Watch

Spec == Init /\ [][Next]_vars

-------------------------------------------------------------------------------
(* The verifiers.                                                           *)

\* A .pub that exists is preferred, even an empty one, which no signature
\* verifies under: from_public_bytes raises.
load_public_key == IF pubFile # NoKey THEN pubFile ELSE keyFile

\* verify_checkpoint_file: each line chains from the one before it, and every
\* signature is the install's.
Chained ==
  \A i \in DOMAIN checkpoints :
    checkpoints[i].prev = IF i = 1 THEN GENESIS_CHECKPOINT_HASH
                                   ELSE checkpoint_content_hash(checkpoints[i - 1])

Signed == \A i \in DOMAIN checkpoints : checkpoints[i].key = load_public_key

verify_checkpoint_file == Chained /\ Signed

\* Mutant: every line's tip is looked up, not the latest one's.
verify_every_line ==
  /\ verify_checkpoint_file
  /\ \A i \in DOMAIN checkpoints : checkpoints[i].tip = 0 \/ checkpoints[i].tip \in live

\* The latest line's tip is GENESIS or some stored row's hash.  The event
\* chain's own replay, verify_chain, always succeeds on an AuditChain.
verify_against_events ==
  /\ verify_checkpoint_file
  /\ checkpoints # <<>> => Latest.tip = 0 \/ Latest.tip \in live

-------------------------------------------------------------------------------
\* Types of the two key files, of the checkpoint file and of the writers.
TypeOK ==
  /\ keyFile \in Writers \cup {NoKey, EmptyKey}
  /\ pubFile \in Writers \cup {NoKey, EmptyKey}
  /\ \A i \in DOMAIN checkpoints : checkpoints[i].key \in Writers /\ checkpoints[i].tip \in Nat
  /\ pc \in [Writers -> Stages]
  /\ overlapped \in BOOLEAN /\ torn \in BOOLEAN

\* Every line ever appended verifies under the public key a verifier loads,
\* however first writes raced, died or overlapped (checkpoint.py:116-118,
\* 142-157): there is one install key.  The one exception is an empty .pub,
\* and only a writer that is between opening it and writing it, or that died
\* exactly there, makes one (checkpoint.py:138).  After such a death the
\* private key goes on signing, nothing ever writes .pub again, and
\* `checkpoint verify` fails for good.
SignedByInstallKey ==
  /\ pubFile # EmptyKey => Signed
  /\ pubFile = EmptyKey => torn \/ \E w \in Writers : pc[w] = "write_pub"

\* A key that has been written is never replaced, so no earlier signature is
\* orphaned ("never regenerated automatically", checkpoint.py:110-113).
KeyNeverReplaced ==
  [][(keyFile \in Writers) => keyFile' = keyFile]_vars

\* As long as writes have not overlapped, the lines of the checkpoint file
\* chain, wherever writers died and events were logged or pruned, and the file
\* verifies (checkpoint.py:254-288) unless a writer died inside
\* checkpoint.py:138.
FileVerifies == ~overlapped => Chained /\ (~torn => verify_checkpoint_file)

\* verify_against_events looks at the last line only, so a later line must
\* never anchor less history than an earlier one.
AnchorsAdvance ==
  ~overlapped =>
   \A i, j \in DOMAIN checkpoints : i < j => checkpoints[i].tip <= checkpoints[j].tip

\* With serial writes, none of which died inside checkpoint.py:138,
\* `checkpoint verify` accepts an event store nobody has tampered with as long
\* as the event the last line anchors is not pruned.
AcceptsUnpruned ==
  ~overlapped /\ ~torn /\ (checkpoints # <<>> => Latest.tip = 0 \/ Latest.tip > base)
    => verify_against_events

\* `checkpoint verify` raises no false tamper alarm: only appends and
\* retention prunes touch the store (docs/status.md:30), and no writer died
\* inside checkpoint.py:138.
NoFalseAlarm == ~overlapped /\ ~torn => verify_against_events
===============================================================================
