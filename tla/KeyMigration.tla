---------------------------- MODULE KeyMigration ----------------------------
(***************************************************************************)
(* The copy of the redis database that a migration makes: migrateAllKeys   *)
(* with migrateKey, from the node that serves clients to the chosen one.   *)
(* Clients go on writing to the serving node while the copy runs, and the  *)
(* service may move again, also back, so that a copy can find keys at its  *)
(* target.  Neither function reports anything to its caller.               *)
(*                                                                         *)
(* A redis value is the number of the client write that made it.  hiredis  *)
(* answers a command with a reply, which may be an error or nil, or with a *)
(* null pointer when the connection breaks.  Connecting and authenticating *)
(* touch no data and are part of the step of the command they precede.     *)
(***************************************************************************)
EXTENDS Naturals

CONSTANTS
  Hosts,            \* the nodes with a redis server
  Keys,
  NoHost, NoKey,
  Faults,           \* whether connections, AUTH and commands may fail
  WritesDuringCopy, \* whether clients write while a copy runs
  MaxOpen,          \* descriptors that a node's process has for redis connections
  MaxWrites,        \* bound: client writes
  MaxCopies         \* bound: migrations

ASSUME KeyMigrationAssumption ==
  /\ NoHost \notin Hosts
  /\ NoKey \notin Keys
  /\ Faults \in BOOLEAN
  /\ WritesDuringCopy \in BOOLEAN
  /\ MaxOpen \in Nat
  /\ MaxWrites \in Nat
  /\ MaxCopies \in Nat

Absent  == 0                 \* no such key
Garbage == MaxWrites + 1     \* an error text, or the empty string of a nil reply
Value   == 1..MaxWrites

VARIABLES
  db,          \* host |-> key |-> its value, or Absent
  serving,     \* the host whose service writes to its database
  target,      \* targetHost of the copy
  pc,          \* "idle", "list", "loop", "restore", "done" or "crashed"
  remaining,   \* the elements of the KEYS reply still to migrate
  key,         \* the key migrateKey is called for
  dumpedValue, \* the bytes of the DUMP reply
  open,        \* host |-> the redis connections its process has open
  writes, copies,
  \* History, not in the code:
  written,     \* key |-> the values clients wrote to it
  quiet,       \* since the copy began no fault and no client write occurred
  touched,     \* the keys a fault or a client write has hit since then
  leftover,    \* the keys the copy found at its target
  before       \* the connections that were open when it began

vars == <<db, serving, target, pc, remaining, key, dumpedValue, open, writes, copies,
          written, quiet, touched, leftover, before>>

Empty == [k \in Keys |-> Absent]

Init == /\ db = [h \in Hosts |-> Empty]
        /\ serving \in Hosts /\ target = NoHost
        /\ pc = "idle" /\ remaining = {} /\ key = NoKey /\ dumpedValue = Absent
        /\ open = [h \in Hosts |-> 0] /\ before = 0
        /\ writes = 0 /\ copies = 0
        /\ written = [k \in Keys |-> {}]
        /\ quiet = TRUE /\ touched = {} /\ leftover = {}

-----------------------------------------------------------------------------
(* The clients of the service, and the migrations it goes through.         *)

MayWrite == pc = "idle" \/ WritesDuringCopy

\* Something happens to k: a client changes it, or a command fails in its turn.
Disturbs(k) == quiet' = FALSE /\ touched' = touched \cup {k}

\* SET by a client of the serving node.
ClientWrite(k) ==
  /\ MayWrite /\ writes < MaxWrites
  /\ writes' = writes + 1
  /\ db' = [db EXCEPT ![serving][k] = writes']
  /\ written' = [written EXCEPT ![k] = @ \cup {writes'}]
  /\ Disturbs(k)
  /\ UNCHANGED <<serving, target, pc, remaining, key, dumpedValue, open, copies, leftover,
                 before>>

\* DEL by a client, or the expiry of the key.
ClientDelete(k) ==
  /\ MayWrite
  /\ db[serving][k] # Absent
  /\ db' = [db EXCEPT ![serving][k] = Absent]
  /\ Disturbs(k)
  /\ UNCHANGED <<serving, target, pc, remaining, key, dumpedValue, open, writes, copies,
                 written, leftover, before>>

\* bestNodeRun calls migrateAllKeys for its _best.
Begin(h) ==
  /\ pc = "idle" /\ copies < MaxCopies
  /\ h # serving
  /\ pc' = "list" /\ target' = h /\ copies' = copies + 1
  /\ quiet' = TRUE /\ touched' = {} /\ leftover' = {k \in Keys : db[h][k] # Absent}
  /\ before' = open[serving]
  /\ UNCHANGED <<db, serving, remaining, key, dumpedValue, open, writes, written>>

\* After the copy the service is switched over, or update fails before that.
Finish ==
  /\ pc = "done"
  /\ pc' = "idle" /\ target' = NoHost
  /\ serving' \in {serving, target}
  /\ UNCHANGED <<db, remaining, key, dumpedValue, open, writes, copies, written, quiet,
                 touched, leftover, before>>

-----------------------------------------------------------------------------
(* The copy.                                                               *)

\* n more connections can be made.
Room(n) == open[serving] + n <= MaxOpen

\* redisConnect succeeds n times and nothing is closed yet, or ever.
Opens(n) == Room(n) /\ open' = [open EXCEPT ![serving] = @ + n]

\* redisFree is called for n contexts.
Closes(n) == open' = [open EXCEPT ![serving] = @ - n]

\* Mutant: the loop starts at the second element of the reply.
ListKeys_SkipsFirst ==
  /\ pc = "list"
  /\ Opens(1)
  /\ \E k \in Keys : remaining' = {j \in Keys : db[serving][j] # Absent} \ {k}
  /\ pc' = "loop"
  /\ UNCHANGED <<db, serving, target, key, dumpedValue, writes, copies, written, quiet,
                 touched, leftover, before>>

\* KEYS * on the source.
ListKeys ==
  /\ pc = "list"
  /\ Opens(1)
  /\ remaining' = {k \in Keys : db[serving][k] # Absent}
  /\ pc' = "loop"
  /\ UNCHANGED <<db, serving, target, key, dumpedValue, writes, copies, written, quiet,
                 touched, leftover, before>>

\* migrateAllKeys returns early: no connection; or AUTH is refused or no reply
\* comes, and the connection is not closed.
ListFails ==
  /\ pc = "list" /\ Faults
  /\ UNCHANGED open \/ Opens(1)
  /\ pc' = "done" /\ quiet' = FALSE /\ touched' = Keys
  /\ UNCHANGED <<db, serving, target, remaining, key, dumpedValue, writes, copies,
                 written, leftover, before>>

\* Mutant: DUMP is sent for another key of the list.
DumpKey_OtherKey ==
  /\ pc = "loop"
  /\ Opens(1)
  /\ \E k \in remaining :
       /\ key' = k
       /\ remaining' = remaining \ {k}
       /\ \E j \in remaining : dumpedValue' = db[serving][j]
  /\ pc' = "restore"
  /\ UNCHANGED <<db, serving, target, writes, copies, written, quiet, touched, leftover,
                 before>>

\* Mutant: the loop index is not advanced.
DumpKey_SameKey ==
  /\ pc = "loop"
  /\ Opens(1)
  /\ \E k \in remaining :
       /\ key' = k
       /\ dumpedValue' = IF db[serving][k] = Absent THEN Garbage ELSE db[serving][k]
  /\ pc' = "restore"
  /\ UNCHANGED <<db, serving, target, remaining, writes, copies, written, quiet, touched,
                 leftover, before>>

\* DUMP of one of the listed keys: nil if the key is gone by now, and an error
\* reply is taken for a payload like any other.
DumpKey ==
  /\ pc = "loop"
  /\ Opens(1)
  /\ \E k \in remaining :
       /\ key' = k
       /\ remaining' = remaining \ {k}
       /\ \/ /\ dumpedValue' = IF db[serving][k] = Absent THEN Garbage ELSE db[serving][k]
             /\ UNCHANGED <<quiet, touched>>
          \/ Faults /\ dumpedValue' = Garbage /\ Disturbs(k)
  /\ pc' = "restore"
  /\ UNCHANGED <<db, serving, target, writes, copies, written, leftover, before>>

\* Mutant: a key that fails ends the loop.
DumpFails_EndsLoop ==
  /\ pc = "loop" /\ Faults
  /\ UNCHANGED open \/ Opens(1)
  /\ \E k \in remaining : remaining' = remaining \ {k} /\ Disturbs(k)
  /\ pc' = "done"
  /\ UNCHANGED <<db, serving, target, key, dumpedValue, writes, copies, written, leftover,
                 before>>

\* migrateKey returns before it has a DUMP reply, and does not close the
\* connection it may have; the loop goes on.
DumpFails ==
  /\ pc = "loop" /\ Faults
  /\ UNCHANGED open \/ Opens(1)
  /\ \E k \in remaining : remaining' = remaining \ {k} /\ Disturbs(k)
  /\ UNCHANGED <<db, serving, target, pc, key, dumpedValue, writes, copies, written,
                 leftover, before>>

\* Mutant: an error reply to DUMP becomes the value.
Restored_AnyPayload ==
  IF db[target][key] = Absent THEN [db EXCEPT ![target][key] = dumpedValue] ELSE db

\* What RESTORE without REPLACE does: it refuses a payload that no DUMP made,
\* and a key that exists.
Restored ==
  IF dumpedValue # Garbage /\ db[target][key] = Absent
  THEN [db EXCEPT ![target][key] = dumpedValue] ELSE db

\* Mutant: only the target's connection is closed.
RestoreKey_FreesTarget ==
  /\ pc = "restore"
  /\ Room(1) /\ UNCHANGED open
  /\ db' = Restored
  /\ pc' = "loop" /\ key' = NoKey /\ dumpedValue' = Absent
  /\ UNCHANGED <<serving, target, remaining, writes, copies, written, quiet, touched,
                 leftover, before>>

\* An error reply to RESTORE is not told from success.  The connection to the
\* target is made, and both are closed.
RestoreKey ==
  /\ pc = "restore"
  /\ Room(1) /\ Closes(1)
  /\ db' = Restored
  /\ pc' = "loop" /\ key' = NoKey /\ dumpedValue' = Absent
  /\ UNCHANGED <<serving, target, remaining, writes, copies, written, quiet, touched,
                 leftover, before>>

\* The target cannot be reached or refuses AUTH; or the reply to RESTORE is
\* lost, whether or not the command took effect.  Nothing is closed.
RestoreFails ==
  /\ pc = "restore" /\ Faults
  /\ \/ UNCHANGED <<db, open>>
     \/ db' \in {db, Restored} /\ Opens(1)
  /\ pc' = "loop" /\ key' = NoKey /\ dumpedValue' = Absent /\ Disturbs(key)
  /\ UNCHANGED <<serving, target, remaining, writes, copies, written, leftover, before>>

\* No descriptor is left, so redisConnect fails: the same early returns,
\* without anything wrong outside the process.
NoDescriptor ==
  /\ ~Room(1)
  /\ \/ /\ pc = "list" /\ pc' = "done" /\ touched' = Keys
        /\ UNCHANGED <<remaining, key, dumpedValue>>
     \/ /\ pc = "loop"
        /\ \E k \in remaining : remaining' = remaining \ {k} /\ touched' = touched \cup {k}
        /\ UNCHANGED <<pc, key, dumpedValue>>
     \/ /\ pc = "restore" /\ pc' = "loop" /\ key' = NoKey /\ dumpedValue' = Absent
        /\ touched' = touched \cup {key}
        /\ UNCHANGED remaining
  /\ UNCHANGED <<db, serving, target, open, writes, copies, written, quiet, leftover,
                 before>>

\* The connection breaks before the reply to an AUTH: reply->type reads
\* through a null pointer.
AuthReplyIsNull ==
  /\ pc \in {"list", "restore"} \/ (pc = "loop" /\ remaining # {})
  /\ Faults /\ Room(1)
  /\ pc' = "crashed"
  /\ UNCHANGED <<db, serving, target, remaining, key, dumpedValue, open, writes, copies,
                 written, quiet, touched, leftover, before>>

\* The loop is over and the connection that listed the keys is closed.
AllKeysTried ==
  /\ pc = "loop" /\ remaining = {}
  /\ Closes(1)
  /\ pc' = "done"
  /\ UNCHANGED <<db, serving, target, remaining, key, dumpedValue, writes, copies,
                 written, quiet, touched, leftover, before>>

Copy == ListKeys \/ ListFails \/ DumpKey \/ DumpFails \/ RestoreKey \/ RestoreFails
          \/ NoDescriptor \/ AuthReplyIsNull \/ AllKeysTried

Client == \E k \in Keys : ClientWrite(k) \/ ClientDelete(k)

Next == Copy \/ Client \/ (\E h \in Hosts : Begin(h)) \/ Finish

Spec == Init /\ [][Next]_vars

\* The thread that runs migrateAllKeys keeps running: hiredis commands return.
FairSpec == Spec /\ WF_vars(Copy)

-----------------------------------------------------------------------------

Copying == pc \in {"list", "loop", "restore", "done"}

TypeOK ==
  /\ db \in [Hosts -> [Keys -> Value \cup {Absent}]]
  /\ serving \in Hosts
  /\ target \in Hosts \cup {NoHost}
  /\ pc \in {"idle", "list", "loop", "restore", "done", "crashed"}
  /\ remaining \subseteq Keys
  /\ key \in Keys \cup {NoKey}
  /\ dumpedValue \in Value \cup {Absent, Garbage}
  /\ open \in [Hosts -> 0..MaxOpen]
  /\ before \in 0..MaxOpen
  /\ writes \in 0..MaxWrites
  /\ copies \in 0..MaxCopies
  /\ written \in [Keys -> SUBSET Value]
  /\ quiet \in BOOLEAN
  /\ touched \subseteq Keys
  /\ leftover \subseteq Keys

\* Whatever fails and whatever is written meanwhile, no database ever holds
\* under a key a value that no client wrote to that key.
NothingInvented ==
  \A h \in Hosts, k \in Keys : db[h][k] # Absent => db[h][k] \in written[k]

\* A copy needs three connections at a time: of migrateAllKeys, and two of
\* migrateKey.
HadRoom == before + 3 <= MaxOpen

\* A copy that meets no fault and no client write, onto a database without
\* keys, carries every key over (migrateAllKeys, "migrates all data"), unless
\* earlier ones have used the descriptors up.
QuietCopyIsComplete ==
  (pc = "done" /\ quiet /\ leftover = {} /\ HadRoom) => db[target] = db[serving]

\* Such a copy also closes every connection it made, whatever clients wrote
\* before it and whatever the target holds: only a failed call leaves one open.
QuietCopyClosesAll == (pc = "done" /\ quiet /\ HadRoom) => open[serving] = before

\* Whatever else fails or is written meanwhile, a key that nothing disturbs, and
\* that the target did not hold before, arrives as it is: what goes wrong with
\* one key is left to that key.
UndisturbedKeysArrive ==
  pc = "done" =>
    \A k \in Keys \ (touched \cup leftover) : db[target][k] = db[serving][k]

\* The loop over the KEYS reply ends, however much clients write meanwhile and
\* however many keys fail.
CopyReturns == (pc = "list") ~> (pc \in {"done", "crashed"})

\* All data is migrated: every key of the source is at the target as it is at the
\* source, also if the target had keys.
AllDataMigrated ==
  (pc = "done" /\ quiet /\ HadRoom) =>
    \A k \in Keys : db[serving][k] # Absent => db[target][k] = db[serving][k]
=============================================================================
