------------------------- MODULE KeyMigrationProofs -------------------------
(***************************************************************************)
(* Proofs about KeyMigration, for all sets of hosts and keys, any number   *)
(* of writes and migrations, and with or without faults.                   *)
(***************************************************************************)
EXTENDS KeyMigration, TLAPS

\* What migrateKey is about to restore comes from the key it is called for.
PayloadInv ==
  pc = "restore" => /\ key \in Keys /\ key \notin remaining
                    /\ dumpedValue = Garbage \/ dumpedValue \in written[key]

\* A key of the list is not at the target yet and still at the source, every
\* other key is equal on both sides; in k's turn it is on its way.
KeyInv(k) ==
  /\ pc = "list" => db[target][k] = Absent
  /\ pc \in {"loop", "restore"} =>
       IF k \in remaining \/ (pc = "restore" /\ k = key)
       THEN db[target][k] = Absent /\ db[serving][k] # Absent
       ELSE db[target][k] = db[serving][k]
  /\ pc = "restore" /\ k = key => dumpedValue = db[serving][k]
  /\ pc = "done" => db[target][k] = db[serving][k]

\* The connections that the functions on the stack hold between two steps.
Held == IF pc = "restore" THEN 2 ELSE IF pc = "loop" THEN 1 ELSE 0

\* They are open, and without a failed call no other one was left.
ConnInv ==
  /\ Held <= open[serving]
  /\ quiet /\ HadRoom /\ Copying => open[serving] = before + Held

IInv ==
  /\ TypeOK
  /\ NothingInvented
  /\ Copying => target \in Hosts \ {serving}
  /\ PayloadInv
  /\ ConnInv
  /\ quiet /\ HadRoom => touched = {}
  /\ \A k \in Keys \ (touched \cup leftover) : KeyInv(k)

LEMMA InitIInv == Init => IInv
  BY KeyMigrationAssumption
     DEF Init, IInv, TypeOK, NothingInvented, Copying, PayloadInv, KeyInv, Empty, Absent, Value,
         ConnInv, Held, HadRoom

\* The keys of Garbage and Absent are no values.
LEMMA NoValue == Garbage \notin Value /\ Absent \notin Value /\ Garbage # Absent
  BY KeyMigrationAssumption DEF Garbage, Absent, Value

\* RESTORE writes at most the payload, under the key it is called for.
LEMMA RestoredAdds ==
  ASSUME TypeOK, PayloadInv, pc = "restore", target \in Hosts
  PROVE  \A h \in Hosts, k \in Keys :
           /\ Restored[h][k] = IF /\ h = target /\ k = key
                                  /\ dumpedValue # Garbage /\ db[h][k] = Absent
                               THEN dumpedValue ELSE db[h][k]
           /\ Restored \in [Hosts -> [Keys -> Value \cup {Absent}]]
  BY DEF TypeOK, PayloadInv, Restored

-----------------------------------------------------------------------------

LEMMA OpensOne ==
  ASSUME TypeOK, Opens(1)
  PROVE  open' \in [Hosts -> 0..MaxOpen] /\ open'[serving] = open[serving] + 1
  <1>1. open[serving] \in 0..MaxOpen /\ open[serving] + 1 <= MaxOpen
    BY DEF TypeOK, Opens, Room
  <1> QED BY <1>1, KeyMigrationAssumption DEF TypeOK, Opens

LEMMA ClosesOne ==
  ASSUME TypeOK, 1 <= open[serving], Closes(1)
  PROVE  open' \in [Hosts -> 0..MaxOpen] /\ open'[serving] = open[serving] - 1
  <1>1. open[serving] \in 0..MaxOpen
    BY DEF TypeOK
  <1> QED BY <1>1, KeyMigrationAssumption DEF TypeOK, Closes

\* A quiet copy that had room is not short of a descriptor.
LEMMA RoomStays ==
  ASSUME TypeOK, ConnInv, NoDescriptor
  PROVE  ~(quiet /\ HadRoom)
  <1>1. open[serving] \in 0..MaxOpen /\ before \in 0..MaxOpen /\ MaxOpen \in Nat
    BY KeyMigrationAssumption DEF TypeOK
  <1> QED BY <1>1 DEF NoDescriptor, Room, ConnInv, Held, HadRoom, Copying

\* No step closes what is not open, and a step that stays quiet leaves no
\* connection behind.
LEMMA NextKeepsConn ==
  ASSUME TypeOK, ConnInv, Copying => target \in Hosts, Next
  PROVE  open' \in [Hosts -> 0..MaxOpen] /\ before' \in 0..MaxOpen /\ ConnInv'
  <1>0. /\ serving \in Hosts /\ open[serving] \in 0..MaxOpen /\ before \in 0..MaxOpen
        /\ open \in [Hosts -> 0..MaxOpen] /\ MaxOpen \in Nat /\ quiet \in BOOLEAN
    BY KeyMigrationAssumption DEF TypeOK
  <1>1. CASE Client
    BY <1>0, <1>1 DEF Client, ClientWrite, ClientDelete, ConnInv, Held, HadRoom, Copying, Disturbs
  <1>2. CASE \E h \in Hosts : Begin(h)
    BY <1>0, <1>2 DEF Begin, ConnInv, Held, HadRoom, Copying
  <1>3. CASE Finish
    <2>1. serving' \in Hosts /\ open' = open /\ before' = before /\ pc' = "idle"
      BY <1>3 DEF Finish, TypeOK, Copying
    <2> QED BY <1>0, <2>1 DEF ConnInv, Held, HadRoom, Copying
  <1>4. CASE ListKeys
    BY <1>0, <1>4, OpensOne DEF ListKeys, ConnInv, Held, HadRoom, Copying
  <1>5. CASE ListFails
    <2>1. open' = open \/ Opens(1)
      BY <1>5 DEF ListFails
    <2>2. open' \in [Hosts -> 0..MaxOpen] /\ open[serving] <= open'[serving]
      BY <1>0, <2>1, OpensOne
    <2> QED BY <1>0, <1>5, <2>2 DEF ListFails, ConnInv, Held
  <1>6. CASE DumpKey
    <2>1. open' \in [Hosts -> 0..MaxOpen] /\ open'[serving] = open[serving] + 1
      BY <1>6, OpensOne DEF DumpKey
    <2>2. quiet' = quiet \/ quiet' = FALSE
      BY <1>6 DEF DumpKey, Disturbs
    <2>3. UNCHANGED <<serving, before>> /\ pc = "loop" /\ pc' = "restore"
      BY <1>6 DEF DumpKey
    <2>4. CASE quiet' = quiet
      BY <1>0, <2>1, <2>3, <2>4 DEF ConnInv, Held, HadRoom, Copying
    <2>5. CASE quiet' = FALSE
      BY <1>0, <2>1, <2>3, <2>5 DEF ConnInv, Held
    <2> QED BY <2>2, <2>4, <2>5
  <1>7. CASE DumpFails
    <2>1. open' = open \/ Opens(1)
      BY <1>7 DEF DumpFails
    <2>2. open' \in [Hosts -> 0..MaxOpen] /\ open[serving] <= open'[serving]
      BY <1>0, <2>1, OpensOne
    <2> QED BY <1>0, <1>7, <2>2 DEF DumpFails, Disturbs, ConnInv, Held
  <1>8. CASE RestoreKey
    <2>1. open' \in [Hosts -> 0..MaxOpen] /\ open'[serving] = open[serving] - 1
      BY <1>0, <1>8, ClosesOne DEF RestoreKey, ConnInv, Held
    <2> QED BY <1>0, <1>8, <2>1 DEF RestoreKey, ConnInv, Held, HadRoom, Copying
  <1>9. CASE RestoreFails
    <2>1. open' = open \/ Opens(1)
      BY <1>9 DEF RestoreFails
    <2>2. open' \in [Hosts -> 0..MaxOpen] /\ open[serving] <= open'[serving]
      BY <1>0, <2>1, OpensOne
    <2> QED BY <1>0, <1>9, <2>2 DEF RestoreFails, Disturbs, ConnInv, Held
  <1>10. CASE NoDescriptor
    <2>1. UNCHANGED <<open, serving, quiet, before>> /\ MaxOpen < open[serving] + 1
      BY <1>0, <1>10 DEF NoDescriptor, Room
    <2>2. \/ pc = "list" /\ pc' = "done"
          \/ pc = "loop" /\ pc' = "loop"
          \/ pc = "restore" /\ pc' = "loop"
      BY <1>10 DEF NoDescriptor
    <2>3. ~(quiet /\ HadRoom)
      BY <1>10, RoomStays
    <2> QED BY <1>0, <2>1, <2>2, <2>3 DEF ConnInv, Held, HadRoom
  <1>11. CASE AuthReplyIsNull
    BY <1>0, <1>11 DEF AuthReplyIsNull, ConnInv, Held, HadRoom, Copying
  <1>12. CASE AllKeysTried
    <2>1. open' \in [Hosts -> 0..MaxOpen] /\ open'[serving] = open[serving] - 1
      BY <1>0, <1>12, ClosesOne DEF AllKeysTried, ConnInv, Held
    <2> QED BY <1>0, <1>12, <2>1 DEF AllKeysTried, ConnInv, Held, HadRoom, Copying
  <1> QED BY <1>1, <1>2, <1>3, <1>4, <1>5, <1>6, <1>7, <1>8, <1>9, <1>10, <1>11, <1>12
          DEF Next, Copy

-----------------------------------------------------------------------------

\* What a client does to one key leaves the turn of another as it is.
LEMMA KeyKept ==
  ASSUME TypeOK, UNCHANGED <<serving, target, pc, remaining, key, dumpedValue>>,
         Copying => target \in Hosts, NEW k \in Keys, KeyInv(k),
         \A h \in Hosts : db'[h][k] = db[h][k]
  PROVE  KeyInv(k)'
  BY DEF TypeOK, KeyInv, Copying

LEMMA ClientKeepsIInv ==
  ASSUME IInv, Client
  PROVE  IInv'
  <1> USE DEF IInv
  <1>0. open' \in [Hosts -> 0..MaxOpen] /\ before' \in 0..MaxOpen /\ ConnInv'
    BY NextKeepsConn DEF Next
  <1>1. CASE \E k \in Keys : ClientWrite(k)
    <2>1. PICK k \in Keys : ClientWrite(k)
      BY <1>1
    <2>2. writes' \in Value
      BY <2>1, KeyMigrationAssumption DEF ClientWrite, TypeOK, Value
    <2>3. \A h \in Hosts, j \in Keys :
            db'[h][j] = IF h = serving /\ j = k THEN writes' ELSE db[h][j]
      BY <2>1 DEF ClientWrite, TypeOK
    <2>4. \A j \in Keys : written'[j] = IF j = k THEN written[j] \cup {writes'} ELSE written[j]
      BY <2>1 DEF ClientWrite, TypeOK
    <2>a. writes' \in 0..MaxWrites
      BY <2>2, KeyMigrationAssumption DEF Value
    <2>b. db' \in [Hosts -> [Keys -> Value \cup {Absent}]]
      BY <2>1, <2>2 DEF ClientWrite, TypeOK
    <2>c. written' \in [Keys -> SUBSET Value]
      BY <2>1, <2>2 DEF ClientWrite, TypeOK
    <2>5. TypeOK'
      BY <1>0, <2>1, <2>a, <2>b, <2>c DEF ClientWrite, Disturbs, TypeOK
    <2>6. NothingInvented'
      BY <2>3, <2>4 DEF NothingInvented
    <2>7. PayloadInv'
      BY <2>1, <2>4 DEF ClientWrite, PayloadInv
    <2>8. \A j \in Keys \ (touched' \cup leftover') : KeyInv(j)'
      <3>1. \A j \in Keys \ {k}, h \in Hosts : db'[h][j] = db[h][j]
        BY <2>3
      <3> QED BY <2>1, <3>1, KeyKept DEF ClientWrite, Disturbs
    <2> QED BY <1>0, <2>1, <2>5, <2>6, <2>7, <2>8 DEF ClientWrite, Disturbs, Copying
  <1>2. CASE \E k \in Keys : ClientDelete(k)
    <2>1. PICK k \in Keys : ClientDelete(k)
      BY <1>2
    <2>2. \A h \in Hosts, j \in Keys :
            db'[h][j] = IF h = serving /\ j = k THEN Absent ELSE db[h][j]
      BY <2>1 DEF ClientDelete, TypeOK
    <2>3. TypeOK'
      BY <1>0, <2>1 DEF ClientDelete, Disturbs, TypeOK
    <2>4. NothingInvented'
      BY <2>1, <2>2 DEF ClientDelete, NothingInvented
    <2>5. PayloadInv'
      BY <2>1 DEF ClientDelete, PayloadInv
    <2>6. \A j \in Keys \ (touched' \cup leftover') : KeyInv(j)'
      <3>1. \A j \in Keys \ {k}, h \in Hosts : db'[h][j] = db[h][j]
        BY <2>2
      <3> QED BY <2>1, <3>1, KeyKept DEF ClientDelete, Disturbs
    <2> QED BY <1>0, <2>1, <2>3, <2>4, <2>5, <2>6 DEF ClientDelete, Disturbs, Copying
  <1> QED BY <1>1, <1>2 DEF Client

LEMMA CopyKeepsIInv ==
  ASSUME IInv, Copy
  PROVE  IInv'
  <1> USE DEF IInv
  <1>0. open' \in [Hosts -> 0..MaxOpen] /\ before' \in 0..MaxOpen /\ ConnInv'
    BY NextKeepsConn DEF Next
  <1>1. CASE ListKeys
    <2>1. TypeOK'
      BY <1>0, <1>1 DEF ListKeys, TypeOK
    <2>2. \A k \in Keys \ (touched' \cup leftover') : KeyInv(k)'
      BY <1>1 DEF ListKeys, KeyInv, TypeOK
    <2> QED BY <1>0, <1>1, <2>1, <2>2
            DEF ListKeys, NothingInvented, PayloadInv, Copying, HadRoom
  <1>2. CASE ListFails
    BY <1>0, <1>2 DEF ListFails, TypeOK, NothingInvented, PayloadInv, Copying, HadRoom
  <1>3. CASE DumpKey
    <2>1. PICK k \in remaining :
            /\ key' = k
            /\ remaining' = remaining \ {k}
            /\ \/ /\ dumpedValue' = IF db[serving][k] = Absent THEN Garbage ELSE db[serving][k]
                  /\ UNCHANGED <<quiet, touched>>
               \/ Faults /\ dumpedValue' = Garbage /\ Disturbs(k)
      BY <1>3 DEF DumpKey
    <2>2. pc = "loop" /\ pc' = "restore"
          /\ UNCHANGED <<db, serving, target, writes, copies, written, leftover, before>>
      BY <1>3 DEF DumpKey
    <2>3. k \in Keys /\ db[serving][k] \in Value \cup {Absent}
      BY DEF TypeOK
    <2>a. \/ quiet' = quiet /\ touched' = touched
             /\ dumpedValue' = IF db[serving][k] = Absent THEN Garbage ELSE db[serving][k]
          \/ quiet' = FALSE /\ touched' = touched \cup {k} /\ dumpedValue' = Garbage
      BY <2>1 DEF Disturbs
    <2>4. quiet' \in BOOLEAN /\ (quiet' => quiet)
      <3>1. quiet \in BOOLEAN
        BY DEF TypeOK
      <3>2. CASE quiet' = quiet
        BY <3>1, <3>2
      <3>3. CASE quiet' = FALSE
        BY <3>3
      <3> QED BY <2>a, <3>2, <3>3
    <2>5. TypeOK'
      <3>1. touched' \subseteq Keys
        BY <2>a, <2>3 DEF TypeOK
      <3> QED BY <1>0, <2>1, <2>2, <2>3, <2>4, <3>1 DEF TypeOK
    <2>6. PayloadInv'
      BY <2>1, <2>2, <2>3 DEF PayloadInv, NothingInvented, TypeOK
    <2>7. \A j \in Keys \ (touched' \cup leftover') : KeyInv(j)'
      BY <2>1, <2>2, <2>3, <2>a DEF KeyInv
    <2>8. quiet' /\ HadRoom' => touched' = {}
      BY <2>a, <2>2 DEF HadRoom
    <2> QED BY <1>0, <2>2, <2>5, <2>6, <2>7, <2>8 DEF NothingInvented, Copying
  <1>4. CASE DumpFails
    <2>1. PICK k \in remaining : remaining' = remaining \ {k} /\ Disturbs(k)
      BY <1>4 DEF DumpFails
    <2>2. \A j \in Keys \ (touched' \cup leftover') : KeyInv(j)'
      BY <1>4, <2>1 DEF DumpFails, Disturbs, KeyInv
    <2>3. TypeOK'
      BY <1>0, <1>4, <2>1 DEF DumpFails, Disturbs, TypeOK
    <2> QED BY <1>0, <1>4, <2>1, <2>2, <2>3
            DEF DumpFails, Disturbs, NothingInvented, PayloadInv, Copying, HadRoom
  <1>5. CASE RestoreKey
    <2>1. target \in Hosts \ {serving}
      BY <1>5 DEF RestoreKey, Copying
    <2>2. TypeOK'
      BY <1>0, <1>5, <2>1, RestoredAdds DEF RestoreKey, TypeOK, PayloadInv
    <2>3. NothingInvented'
      BY <1>5, <2>1, RestoredAdds DEF RestoreKey, NothingInvented, PayloadInv
    <2>4. \A k \in Keys \ (touched' \cup leftover') : KeyInv(k)'
      <3>1. SUFFICES ASSUME NEW k \in Keys \ (touched \cup leftover) PROVE KeyInv(k)'
        BY <1>5 DEF RestoreKey
      <3>2. db[serving][k] \in Value \cup {Absent} /\ serving \in Hosts /\ KeyInv(k)
        BY <3>1 DEF TypeOK
      <3>3. db'[serving][k] = db[serving][k]
        BY <1>5, <2>1, <3>2, RestoredAdds DEF RestoreKey
      <3>4. CASE k = key
        BY <1>5, <2>1, <3>2, <3>3, <3>4, RestoredAdds, NoValue DEF RestoreKey, KeyInv, PayloadInv
      <3>5. CASE k # key
        BY <1>5, <2>1, <3>2, <3>3, <3>5, RestoredAdds DEF RestoreKey, KeyInv
      <3> QED BY <3>4, <3>5
    <2> QED BY <1>0, <1>5, <2>1, <2>2, <2>3, <2>4
            DEF RestoreKey, PayloadInv, Copying, HadRoom
  <1>6. CASE RestoreFails
    <2>1. target \in Hosts \ {serving}
      BY <1>6 DEF RestoreFails, Copying
    <2>2. TypeOK'
      BY <1>0, <1>6, <2>1, RestoredAdds DEF RestoreFails, Disturbs, TypeOK, PayloadInv
    <2>3. NothingInvented'
      BY <1>6, <2>1, RestoredAdds DEF RestoreFails, NothingInvented, PayloadInv
    <2>4. \A k \in Keys \ (touched' \cup leftover') : KeyInv(k)'
      <3>1. SUFFICES ASSUME NEW k \in Keys \ (touched' \cup leftover') PROVE KeyInv(k)'
        OBVIOUS
      <3>2. k # key /\ k \notin touched \cup leftover /\ KeyInv(k)
        BY <1>6, <3>1 DEF RestoreFails, Disturbs
      <3>3. db'[target][k] = db[target][k] /\ db'[serving][k] = db[serving][k]
        BY <1>6, <2>1, <3>2, RestoredAdds DEF RestoreFails, TypeOK
      <3> QED BY <1>6, <3>2, <3>3 DEF RestoreFails, KeyInv
    <2> QED BY <1>0, <1>6, <2>1, <2>2, <2>3, <2>4
            DEF RestoreFails, Disturbs, PayloadInv, Copying, HadRoom
  <1>7. CASE AuthReplyIsNull
    BY <1>0, <1>7 DEF AuthReplyIsNull, TypeOK, NothingInvented, PayloadInv, Copying, KeyInv, HadRoom
  <1>8. CASE AllKeysTried
    BY <1>0, <1>8 DEF AllKeysTried, TypeOK, NothingInvented, PayloadInv, Copying, KeyInv, HadRoom
  <1>9. CASE NoDescriptor
    <2>1. ~(quiet' /\ HadRoom')
      BY <1>9, RoomStays DEF NoDescriptor, HadRoom
    <2>2. TypeOK'
      BY <1>0, <1>9 DEF NoDescriptor, TypeOK, PayloadInv
    <2>3. \A k \in Keys \ (touched' \cup leftover') : KeyInv(k)'
      <3>1. CASE pc = "list"
        BY <1>9, <3>1 DEF NoDescriptor
      <3>2. CASE pc = "loop"
        BY <1>9, <3>2 DEF NoDescriptor, KeyInv
      <3>3. CASE pc = "restore"
        BY <1>9, <3>3 DEF NoDescriptor, KeyInv
      <3> QED BY <1>9, <3>1, <3>2, <3>3 DEF NoDescriptor
    <2> QED BY <1>0, <1>9, <2>1, <2>2, <2>3
            DEF NoDescriptor, NothingInvented, PayloadInv, Copying
  <1> QED BY <1>1, <1>2, <1>3, <1>4, <1>5, <1>6, <1>7, <1>8, <1>9 DEF Copy

LEMMA NextKeepsIInv == IInv /\ [Next]_vars => IInv'
  <1> SUFFICES ASSUME IInv, [Next]_vars PROVE IInv'
    OBVIOUS
  <1>1. CASE \E h \in Hosts : Begin(h)
    <2>1. PICK h \in Hosts : Begin(h)
      BY <1>1
    <2>2. copies' \in 0..MaxCopies
      BY <2>1, KeyMigrationAssumption DEF Begin, IInv, TypeOK
    <2>a. open' \in [Hosts -> 0..MaxOpen] /\ before' \in 0..MaxOpen /\ ConnInv'
      BY <1>1, NextKeepsConn DEF Next, IInv
    <2>3. TypeOK'
      BY <2>1, <2>2, <2>a DEF Begin, IInv, TypeOK
    <2>4. \A k \in Keys \ (touched' \cup leftover') : KeyInv(k)'
      BY <2>1 DEF Begin, KeyInv
    <2> QED BY <2>1, <2>3, <2>4, <2>a DEF Begin, IInv, NothingInvented, PayloadInv, Copying
  <1>2. CASE Finish
    <2>1. TypeOK'
      BY <1>2 DEF Finish, IInv, TypeOK, Copying
    <2>2. ConnInv'
      BY <1>2, NextKeepsConn DEF Next, IInv
    <2> QED BY <1>2, <2>1, <2>2
            DEF Finish, IInv, NothingInvented, PayloadInv, Copying, KeyInv, HadRoom
  <1>3. CASE UNCHANGED vars
    BY <1>3 DEF vars, IInv, TypeOK, NothingInvented, PayloadInv, Copying, KeyInv, ConnInv,
         Held, HadRoom
  <1> QED BY <1>1, <1>2, <1>3, ClientKeepsIInv, CopyKeepsIInv DEF Next

LEMMA SpecKeepsIInv == Spec => []IInv
  BY InitIInv, NextKeepsIInv, PTL DEF Spec

\* The databases hold values and nothing else: no payload that came from an
\* error reply or from a key gone meanwhile ends up in one.
THEOREM TypeCorrect == Spec => []TypeOK
  BY SpecKeepsIInv, PTL DEF IInv

\* A value is only ever found under the key that a client wrote it to.
THEOREM ValuesComeFromClients == Spec => []NothingInvented
  BY SpecKeepsIInv, PTL DEF IInv

\* A key that nothing disturbs arrives, whatever happens to the others.
THEOREM UndisturbedArrive == Spec => []UndisturbedKeysArrive
  <1>1. IInv => UndisturbedKeysArrive
    BY DEF IInv, KeyInv, UndisturbedKeysArrive
  <1> QED BY <1>1, SpecKeepsIInv, PTL

\* A copy without faults and client writes onto an empty database is complete, if
\* it had the descriptors it needs.
THEOREM QuietCopy == Spec => []QuietCopyIsComplete
  <1>1. IInv => QuietCopyIsComplete
    <2> SUFFICES ASSUME IInv, pc = "done", quiet, leftover = {}, HadRoom
                 PROVE  db[target] = db[serving]
      BY DEF QuietCopyIsComplete
    <2>1. \A k \in Keys : db[target][k] = db[serving][k]
      BY DEF IInv, KeyInv
    <2>2. target \in Hosts /\ serving \in Hosts
      BY DEF IInv, Copying, TypeOK
    <2> QED BY <2>1, <2>2 DEF IInv, TypeOK
  <1> QED BY <1>1, SpecKeepsIInv, PTL

\* Only a failed call leaves a connection open.
THEOREM QuietCopyLeaksNothing == Spec => []QuietCopyClosesAll
  <1>1. IInv => QuietCopyClosesAll
    BY DEF IInv, TypeOK, ConnInv, Held, Copying, QuietCopyClosesAll
  <1> QED BY <1>1, SpecKeepsIInv, PTL
=============================================================================
