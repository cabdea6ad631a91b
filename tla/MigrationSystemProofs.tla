----------------------- MODULE MigrationSystemProofs -----------------------
(***************************************************************************)
(* Proofs about MigrationSystem, for every number of nodes, every pattern  *)
(* of loads, lost requests, crashes and restarts.                          *)
(***************************************************************************)
EXTENDS MigrationSystem, TLAPS

\* n has a target that it had started and that it relies on.
Handing(n) == server[n] = "trigger" /\ stage[n] \in {"copy", "stop", "dns"}

\* The target of a handover is up as long as nobody stopped it since.
TargetsAreUp ==
  \A n \in Node : /\ Handing(n) => target[n] \in running \/ undercut[n]
                  /\ undercut[n] => crossed

\* From the selection to the end of the tick there is a target: another node,
\* and one that was low in this tick.
TargetsAreKnown ==
  \A n \in Node :
    (server[n] = "trigger" /\ stage[n] \in {"sample", "start", "copy", "stop", "dns"})
      => target[n] \in wasLow[n] /\ wasLow[n] \subseteq Node \ {n}

\* What a tick notes as low are other nodes, and when it is to select one, all
\* those that are low now.
LowAreNoted ==
  \A n \in Node :
    /\ wasLow[n] \subseteq Node \ {n}
    /\ (server[n] = "trigger" /\ stage[n] = "select") => Low \ {n} \subseteq wasLow[n]

IInv == /\ TypeOK
        /\ TargetsAreUp /\ TargetsAreKnown /\ LowAreNoted
        /\ NoOutageUnlessCrossed /\ DnsFollows

-----------------------------------------------------------------------------

LEMMA InitIInv == Init => IInv
  BY SystemAssumption DEF Init, IInv, TypeOK, TargetsAreUp, Handing, TargetsAreKnown,
     LowAreNoted, NoOutageUnlessCrossed, DnsFollows

\* The steps of n that leave the containers, the DNS entry and what is known of
\* crossings and faults alone.
LEMMA QuietStep ==
  ASSUME IInv, TypeOK', NEW n \in Node,
         UNCHANGED <<load, running, dns, crossed, faulty>>,
         \A m \in Node \ {n} : /\ server'[m] = server[m] /\ stage'[m] = stage[m]
                               /\ target'[m] = target[m] /\ wasLow'[m] = wasLow[m],
         wasLow'[n] \subseteq Node \ {n},
         Handing(n)' => Handing(n) /\ target'[n] = target[n],
         At(n, "trigger", "dns") => At(n, "trigger", "dns")',
         undercut' \in {undercut, [undercut EXCEPT ![n] = FALSE]},
         undercut[n] => undercut'[n] \/ ~Handing(n)',
         At(n, "trigger", "select")' => Low \ {n} \subseteq wasLow'[n],
         (server[n] = "trigger" /\ stage[n] \in {"sample", "start", "copy", "stop", "dns"})'
           => target'[n] \in wasLow'[n]
  PROVE  IInv'
  <1>1. TargetsAreUp'
    BY DEF IInv, TypeOK, TargetsAreUp, Handing
  <1>2. LowAreNoted'
    BY DEF IInv, LowAreNoted, Low, At
  <1>3. TargetsAreKnown'
    BY <1>2 DEF IInv, TargetsAreKnown, LowAreNoted
  <1>4. DnsFollows'
    BY DEF IInv, DnsFollows, At, TypeOK
  <1> QED BY <1>1, <1>2, <1>3, <1>4 DEF IInv, NoOutageUnlessCrossed

LEMMA TickSteps ==
  ASSUME IInv, NEW n \in Node,
         TriggerStart(n) \/ Judge(n) \/ Select(n) \/ Sample(n) \/ EtcdThrows(n) \/ Copy(n)
           \/ TriggerReplies(n)
  PROVE  IInv'
  <1> USE DEF At, Goto, Leave, Return
  <1>1. CASE TriggerStart(n)
    <2>1. TypeOK'
      BY <1>1 DEF TriggerStart, IInv, TypeOK, external, history
    <2> QED BY <1>1, <2>1, QuietStep DEF TriggerStart, IInv, TypeOK, LowAreNoted, Handing,
              external, history
  <1>2. CASE Judge(n)
    <2>1. TypeOK'
      BY <1>2 DEF Judge, ReadConfiguration, Low, IInv, TypeOK, external
    <2> QED BY <1>2, <2>1, QuietStep DEF Judge, Low, IInv, TypeOK, Handing, external
  <1>3. CASE Select(n)
    <2>1. TypeOK'
      BY <1>3 DEF Select, Low, IInv, TypeOK, external, history
    <2> QED BY <1>3, <2>1, QuietStep DEF Select, IInv, TypeOK, LowAreNoted, Handing,
              external, history
  <1>4. CASE Sample(n)
    <2>1. TypeOK'
      BY <1>4 DEF Sample, IInv, TypeOK, external, history
    <2>2. target[n] \in wasLow[n] /\ UNCHANGED <<target, wasLow>>
      BY <1>4 DEF Sample, IInv, TargetsAreKnown, history
    <2>3. server' = server /\ stage'[n] \in {"judge", "start"}
          /\ \A m \in Node \ {n} : stage'[m] = stage[m]
      BY <1>4 DEF Sample, IInv, TypeOK
    <2> QED BY <1>4, <2>1, <2>2, <2>3, QuietStep DEF Sample, IInv, LowAreNoted,
              Handing, external, history
  <1>5. CASE EtcdThrows(n)
    <2>1. TypeOK'
      BY <1>5 DEF EtcdThrows, IInv, TypeOK, external
    <2>2. /\ UNCHANGED <<load, running, dns, crossed, faulty>>
          /\ server' = [server EXCEPT ![n] = "listening"]
          /\ stage' = [stage EXCEPT ![n] = "idle"] /\ stage[n] # "dns"
          /\ target' = [target EXCEPT ![n] = NoNode]
          /\ wasLow' = [wasLow EXCEPT ![n] = {}]
          /\ undercut' = [undercut EXCEPT ![n] = FALSE]
      BY <1>5 DEF EtcdThrows, external
    <2>3. server'[n] = "listening" /\ wasLow'[n] = {}
          /\ \A m \in Node \ {n} : /\ server'[m] = server[m] /\ stage'[m] = stage[m]
                                    /\ target'[m] = target[m] /\ wasLow'[m] = wasLow[m]
      BY <2>2 DEF IInv, TypeOK
    <2> HIDE DEF Return, Leave
    <2> QED BY <2>1, <2>2, <2>3, QuietStep DEF Handing
  <1>6. CASE Copy(n)
    <2>1. TypeOK'
      BY <1>6 DEF Copy, IInv, TypeOK, external, history
    <2> QED BY <1>6, <2>1, QuietStep DEF Copy, IInv, TypeOK, LowAreNoted, TargetsAreKnown,
              Handing, external, history
  <1>7. CASE TriggerReplies(n)
    <2>1. TypeOK'
      BY <1>7 DEF TriggerReplies, IInv, TypeOK, external
    <2>2. /\ UNCHANGED <<load, running, dns, crossed, faulty>>
          /\ server' = [server EXCEPT ![n] = "listening"]
          /\ stage' = [stage EXCEPT ![n] = "idle"] /\ stage[n] # "dns"
          /\ target' = [target EXCEPT ![n] = NoNode]
          /\ wasLow' = [wasLow EXCEPT ![n] = {}]
          /\ undercut' = [undercut EXCEPT ![n] = FALSE]
      BY <1>7 DEF TriggerReplies, external
    <2>3. server'[n] = "listening" /\ wasLow'[n] = {}
          /\ \A m \in Node \ {n} : /\ server'[m] = server[m] /\ stage'[m] = stage[m]
                                    /\ target'[m] = target[m] /\ wasLow'[m] = wasLow[m]
      BY <2>2 DEF IInv, TypeOK
    <2> HIDE DEF Return, Leave
    <2> QED BY <2>1, <2>2, <2>3, QuietStep DEF Handing
  <1> QED BY <1>1, <1>2, <1>3, <1>4, <1>5, <1>6, <1>7

\* A start brings up its target, and nothing down.
LEMMA StartStep ==
  ASSUME IInv, NEW n \in Node, StartContainer(n)
  PROVE  IInv'
  <1> USE DEF At, Goto
  <1>1. /\ server[n] = "trigger" /\ stage[n] = "start" /\ server' = server
        /\ UNCHANGED <<target, waiting, configured, load, dns, wasLow, crossed, undercut, faulty>>
    BY DEF StartContainer, history
  <1>2. target[n] \in wasLow[n] /\ wasLow[n] \subseteq Node \ {n}
    BY <1>1 DEF IInv, TargetsAreKnown
  <1>3. PICK acked \in Answers : /\ StartAt(target[n], acked)
                                 /\ stage' = [stage EXCEPT ![n] = IF acked THEN "copy" ELSE "judge"]
    BY DEF StartContainer, Answers
  <1>4. running \subseteq running' /\ (acked => target[n] \in running')
    BY <1>3 DEF StartAt
  <1>5. TypeOK'
    BY <1>1, <1>2, <1>3 DEF IInv, TypeOK, StartAt
  <1>6. TargetsAreUp'
    BY <1>1, <1>3, <1>4 DEF IInv, TypeOK, TargetsAreUp, Handing
  <1>7. TargetsAreKnown' /\ LowAreNoted'
    BY <1>1, <1>3 DEF IInv, TypeOK, TargetsAreKnown, LowAreNoted, Low
  <1>8. NoOutageUnlessCrossed' /\ DnsFollows'
    BY <1>1, <1>3, <1>4 DEF IInv, TypeOK, NoOutageUnlessCrossed, DnsFollows
  <1> QED BY <1>1, <1>5, <1>6, <1>7, <1>8 DEF IInv

\* A stop takes down no container but n's.  If nobody hands over to n, what
\* others rely on stays, and the target of n, another node, stays up.
LEMMA StopStep ==
  ASSUME IInv, NEW n \in Node, StopContainer(n)
  PROVE  IInv'
  <1> USE DEF At, Goto
  <1>1. /\ server[n] = "trigger" /\ stage[n] = "stop" /\ server' = server
        /\ UNCHANGED <<target, waiting, configured, load, dns, wasLow>>
        /\ crossed' = (crossed \/ \E m \in Node : HandsOverTo(m, n))
        /\ undercut' = [m \in Node |-> undercut[m] \/ HandsOverTo(m, n)]
    BY DEF StopContainer, Undercuts
  <1>2. PICK acked \in Answers :
          /\ StopAt(n, acked)
          /\ stage' = [stage EXCEPT ![n] = IF acked THEN "dns" ELSE "reply"]
          /\ faulty' = (faulty \/ (~acked /\ dns = n /\ n \notin running'))
    BY DEF StopContainer
  <1>3. running \ {n} \subseteq running' /\ running' \subseteq running
        /\ (acked => running' = running \ {n})
    BY <1>2 DEF StopAt
  <1>4. target[n] \in Node \ {n}
    BY <1>1 DEF IInv, TargetsAreKnown
  <1>5. TypeOK'
    <2>1. \A m \in Node : HandsOverTo(m, n) \in BOOLEAN
      BY DEF HandsOverTo
    <2> QED BY <1>1, <1>2, <1>3, <2>1 DEF IInv, TypeOK
  <1>6. ASSUME NEW m \in Node, Handing(m), ~undercut'[m]
        PROVE  target[m] \in running'
    <2>1. ~undercut[m] /\ ~HandsOverTo(m, n)
      BY <1>1, <1>6
    <2>2. target[m] \in running /\ target[m] # n
      BY <1>6, <2>1 DEF IInv, TargetsAreUp, Handing, HandsOverTo
    <2> QED BY <1>3, <2>2
  <1>7. TargetsAreUp'
    <2>1. \A m \in Node : Handing(m)' => Handing(m)
      BY <1>1, <1>2 DEF IInv, TypeOK, Handing
    <2>2. \A m \in Node : undercut'[m] => crossed'
      BY <1>1 DEF IInv, TargetsAreUp
    <2> QED BY <1>1, <1>6, <2>1, <2>2 DEF TargetsAreUp
  <1>8. TargetsAreKnown' /\ LowAreNoted'
    BY <1>1, <1>2 DEF IInv, TypeOK, TargetsAreKnown, LowAreNoted, Low
  <1>9. NoOutageUnlessCrossed'
    <2>1. ~crossed' => ~undercut'[n]
      BY <1>1 DEF IInv, TargetsAreUp
    <2> QED BY <1>1, <1>6, <2>1 DEF NoOutageUnlessCrossed, Handing
  <1>10. DnsFollows'
    <2> SUFFICES ASSUME ~faulty' PROVE dns' \in running' \/ At(dns, "trigger", "dns")'
      BY DEF DnsFollows
    <2>1. CASE dns \in running /\ dns # n
      BY <1>1, <1>3, <2>1
    <2>2. CASE dns \in running /\ dns = n
      BY <1>1, <1>2, <1>3, <2>2 DEF IInv, TypeOK
    <2>3. CASE At(dns, "trigger", "dns")
      BY <1>1, <1>2, <2>3 DEF IInv, TypeOK
    <2> QED BY <1>2, <2>1, <2>2, <2>3 DEF IInv, DnsFollows
  <1> QED BY <1>2, <1>5, <1>7, <1>8, <1>9, <1>10 DEF IInv

LEMMA DnsStep ==
  ASSUME IInv, NEW n \in Node, ModifyDns(n)
  PROVE  IInv'
  <1> USE DEF At, Goto
  <1>1. /\ server[n] = "trigger" /\ stage[n] = "dns" /\ server' = server
        /\ stage' = [stage EXCEPT ![n] = "reply"]
        /\ dns' \in {dns, target[n]} 
        /\ faulty' = IF dns' = target[n] THEN undercut[n] ELSE faulty \/ dns = n
        /\ UNCHANGED <<target, waiting, configured, load, running, wasLow, crossed, undercut>>
    BY DEF ModifyDns, DnsAt
  <1>2. target[n] \in Node /\ (undercut[n] \/ target[n] \in running)
    BY <1>1 DEF IInv, TargetsAreKnown, TargetsAreUp, Handing
  <1>3. TypeOK'
    BY <1>1, <1>2 DEF IInv, TypeOK
  <1>4. TargetsAreUp'
    BY <1>1 DEF IInv, TypeOK, TargetsAreUp, Handing
  <1>5. TargetsAreKnown' /\ LowAreNoted'
    BY <1>1 DEF IInv, TypeOK, TargetsAreKnown, LowAreNoted, Low
  <1>6. NoOutageUnlessCrossed'
    BY <1>1 DEF IInv, NoOutageUnlessCrossed
  <1>7. DnsFollows'
    <2>1. CASE dns' = target[n]
      BY <1>1, <1>2, <2>1 DEF DnsFollows
    <2>2. CASE dns' = dns /\ dns # n /\ dns' # target[n]
      BY <1>1, <2>2 DEF IInv, TypeOK, DnsFollows
    <2>3. CASE dns = n /\ dns' # target[n]
      BY <1>1, <2>3 DEF DnsFollows
    <2> QED BY <1>1, <2>1, <2>2, <2>3
  <1> QED BY <1>3, <1>4, <1>5, <1>6, <1>7 DEF IInv

\* A forced migration brings up its target at most.
LEMMA CmdSteps ==
  ASSUME IInv, NEW n \in Node,
         CmdArrives(n) \/ CmdStart(n) \/ CmdMalformed(n) \/ Cmd(n)
  PROVE  IInv'
  <1> USE DEF At, Goto, Leave
  <1>1. /\ UNCHANGED <<load, dns, crossed, faulty>>
        /\ \A m \in Node : /\ server'[m] # server[m] => server[m] # "trigger" /\ server'[m] # "trigger"
                           /\ server'[m] = "trigger" =>
                                stage'[m] = stage[m] /\ target'[m] = target[m] /\ wasLow'[m] = wasLow[m]
                           /\ wasLow'[m] = wasLow[m] \/ wasLow'[m] = {}
                           /\ undercut'[m] = undercut[m] \/ (server'[m] # "trigger" /\ ~undercut'[m])
    BY DEF CmdArrives, CmdStart, CmdMalformed, Cmd, CmdStartContainer, CmdStopAndReply,
           external, history, IInv, TypeOK
  <1>2. running \subseteq running' /\ running' \subseteq Node
    BY SystemAssumption DEF CmdArrives, CmdStart, CmdMalformed, Cmd, CmdStartContainer,
           CmdStopAndReply, CmdNodeIp, StartAt, StopAt, external, IInv, TypeOK
  <1>3. TypeOK'
    <2>1. CASE CmdArrives(n)
      BY <2>1 DEF CmdArrives, IInv, TypeOK, external, history
    <2>2. CASE CmdStart(n)
      <3>1. configured' \in [Node -> BOOLEAN] /\ waiting' \in [Node -> BOOLEAN]
        BY <2>2 DEF CmdStart, ReadConfiguration, IInv, TypeOK
      <3>2. PICK m \in Node \cup {NoNode} : target' = [target EXCEPT ![n] = m]
        BY <2>2 DEF CmdStart
      <3> QED BY <2>2, <3>1, <3>2 DEF CmdStart, IInv, TypeOK, external, history
    <2>3. CASE CmdMalformed(n)
      BY <2>3 DEF CmdMalformed, ReadConfiguration, IInv, TypeOK, external, history
    <2>4. CASE CmdStartContainer(n)
      BY <1>2, <2>4 DEF CmdStartContainer, IInv, TypeOK, history
    <2>5. CASE CmdStopAndReply(n)
      BY <1>2, <2>5 DEF CmdStopAndReply, IInv, TypeOK
    <2> QED BY <2>1, <2>2, <2>3, <2>4, <2>5 DEF Cmd
  <1>4. TargetsAreUp'
    BY <1>1, <1>2 DEF IInv, TargetsAreUp, Handing
  <1>5. TargetsAreKnown' /\ LowAreNoted'
    BY <1>1 DEF IInv, TargetsAreKnown, LowAreNoted, Low
  <1>6. NoOutageUnlessCrossed' /\ DnsFollows'
    BY <1>1, <1>2, <1>3 DEF IInv, TypeOK, NoOutageUnlessCrossed, DnsFollows
  <1> QED BY <1>1, <1>3, <1>4, <1>5, <1>6 DEF IInv

\* A process that ends or starts again touches no container; the handover it
\* leaves between stop and DNS update counts as a fault.
LEMMA ProcessSteps ==
  ASSUME IInv, NEW n \in Node,
         SelectNobody(n) \/ CopyCrashes(n) \/ Crash(n) \/ Restart(n)
  PROVE  IInv'
  <1> USE DEF At
  <1>1. /\ UNCHANGED <<load, running, dns, crossed>>
        /\ server' \in {[server EXCEPT ![n] = s] : s \in {"crashed", "listening"}}
        /\ stage' = [stage EXCEPT ![n] = "idle"]
        /\ target' = [target EXCEPT ![n] = NoNode]
        /\ wasLow' = [wasLow EXCEPT ![n] = {}]
        /\ undercut' = [undercut EXCEPT ![n] = FALSE]
        /\ waiting' \in {waiting, [waiting EXCEPT ![n] = FALSE]}
        /\ configured' \in {configured, [configured EXCEPT ![n] = FALSE]}
    BY DEF SelectNobody, CopyCrashes, Crash, Restart, End, Return, Leave, external
  <1>a. faulty' \in BOOLEAN /\ (faulty \/ (At(n, "trigger", "dns") /\ dns = n) => faulty')
    BY DEF SelectNobody, CopyCrashes, Crash, Restart, End, Return, IInv, TypeOK
  <1>2. TypeOK'
    <2>1. PICK s \in {"crashed", "listening"} : server' = [server EXCEPT ![n] = s]
      BY <1>1
    <2> QED BY <1>1, <1>a, <2>1 DEF IInv, TypeOK
  <1>3. TargetsAreUp'
    BY <1>1 DEF IInv, TypeOK, TargetsAreUp, Handing
  <1>4. TargetsAreKnown' /\ LowAreNoted'
    BY <1>1 DEF IInv, TypeOK, TargetsAreKnown, LowAreNoted, Low
  <1>5. NoOutageUnlessCrossed'
    BY <1>1 DEF IInv, NoOutageUnlessCrossed
  <1>6. DnsFollows'
    BY <1>1, <1>a DEF IInv, TypeOK, DnsFollows
  <1> QED BY <1>6, <1>2, <1>3, <1>4, <1>5 DEF IInv

LEMMA LoadStep ==
  ASSUME IInv, NEW n \in Node, LoadChanges(n)
  PROVE  IInv'
  <1>1. /\ UNCHANGED <<server, stage, target, waiting, configured, running, dns>>
        /\ UNCHANGED <<crossed, undercut, faulty>>
        /\ \A m \in Node : /\ wasLow'[m] \subseteq Node
                           /\ wasLow[m] \subseteq Node \ {m} => wasLow'[m] \subseteq Node \ {m}
                           /\ server[m] = "trigger" => /\ wasLow[m] \subseteq wasLow'[m]
                                                        /\ Low' \ {m} \subseteq wasLow'[m]
        /\ wasLow' \in [Node -> SUBSET Node] /\ load' \in [Node -> Loads]
    BY DEF LoadChanges, Low, agents, IInv, TypeOK
  <1>2. TypeOK'
    BY <1>1 DEF IInv, TypeOK
  <1>3. TargetsAreKnown' /\ LowAreNoted'
    BY <1>1 DEF IInv, TargetsAreKnown, LowAreNoted, Low
  <1> QED BY <1>1, <1>2, <1>3 DEF IInv, TargetsAreUp, Handing, NoOutageUnlessCrossed,
            DnsFollows, At

LEMMA SpecKeepsIInv == Spec => []IInv
  <1>1. IInv /\ UNCHANGED vars => IInv'
    BY DEF vars, agents, external, history, IInv, TypeOK, TargetsAreUp, Handing,
           TargetsAreKnown, LowAreNoted, Low, NoOutageUnlessCrossed, DnsFollows, At
  <1>2. IInv /\ [Next]_vars => IInv'
    BY <1>1, TickSteps, StartStep, StopStep, DnsStep, CmdSteps, ProcessSteps, LoadStep
       DEF Next, Trigger
  <1> QED BY InitIInv, <1>2, PTL DEF Spec

-----------------------------------------------------------------------------

\* The agents' variables stay in their types, and a handler's stage does not
\* outlive it.
THEOREM TypeCorrect == Spec => []TypeOK
  BY SpecKeepsIInv, PTL DEF IInv

\* Only handovers that cross leave the service without a container: losing
\* requests, ending processes and forced migrations do not.
THEOREM ServiceStaysUpUnlessCrossed == Spec => []NoOutageUnlessCrossed
  BY SpecKeepsIInv, PTL DEF IInv

\* The entry points to a node that is up or about to be replaced in it, unless a
\* recorded fault left it behind; a handover that completes ends the fault.
THEOREM NameFollowsService == Spec => []DnsFollows
  BY SpecKeepsIInv, PTL DEF IInv

\* A node that is handed over to was low in the tick that chose it.
THEOREM ChoiceIsFresh == Spec => []ChoiceIsOfThisTick
  <1>1. IInv => ChoiceIsOfThisTick
    BY DEF IInv, TargetsAreKnown, ChoiceIsOfThisTick
  <1> QED BY <1>1, SpecKeepsIInv, PTL

\* Each tick keeps to Handover, whatever the other agents do in between.
THEOREM EachKeepsThePromise == Spec => AgentsKeepThePromise
  <1>1. ASSUME IInv, [Next]_vars, NEW n \in Node, Trigger(n)
        PROVE  Promise(n)!Next \/ UNCHANGED Promise(n)!vars
    <2> USE DEF Phase, At, Goto
    <2>0. /\ server \in [Node -> {"listening", "trigger", "cmd", "crashed"}]
          /\ stage \in [Node -> {"idle", "judge", "select", "sample", "start", "copy", "stop",
                                 "dns", "reply"}]
          /\ target \in [Node -> Node \cup {NoNode}]
          /\ stage[n] \in {"sample", "start", "copy", "stop", "dns"} /\ server[n] = "trigger"
               => target[n] \in Node \ {n}
      BY <1>1 DEF IInv, TypeOK, TargetsAreKnown
    <2>1. CASE TriggerStart(n)
      BY <2>0, <2>1 DEF TriggerStart, external, Promise!vars
    <2>2. CASE Judge(n)
      BY <2>0, <2>2 DEF Judge, external, Promise!vars
    <2>3. CASE Select(n)
      <3>1. target'[n] \in Node \ {n} /\ Phase(n)' = "open" /\ Phase(n) = "open"
        BY <2>0, <2>3 DEF Select, Low
      <3> QED BY <2>3, <3>1 DEF Select, external, Promise!Next, Promise!Choose
    <2>4. CASE Sample(n)
      BY <2>0, <2>4 DEF Sample, external, Promise!vars
    <2>5. CASE EtcdThrows(n)
      BY <2>0, <2>5 DEF EtcdThrows, Return, Leave, external, Promise!Next, Promise!Choose
    <2>6. CASE StartContainer(n)
      <3>1. PICK acked \in Answers :
              /\ StartAt(target[n], acked)
              /\ stage' = [stage EXCEPT ![n] = IF acked THEN "copy" ELSE "judge"]
        BY <2>6 DEF StartContainer
      <3>2. /\ target[n] \in Node \ {n} /\ Phase(n) = "open"
            /\ UNCHANGED <<dns, target, server>>
        BY <2>0, <2>6 DEF StartContainer
      <3>3. CASE acked
        <4>1. Phase(n)' = "committed" /\ running' = running \cup {target[n]}
          BY <2>0, <2>6, <3>1, <3>2, <3>3 DEF StartAt, StartContainer
        <4> QED BY <3>2, <4>1 DEF Promise!Next, Promise!Commit
      <3>4. CASE ~acked
        <4>1. Phase(n)' = "open" /\ running' \in {running, running \cup {target[n]}}
          BY <2>0, <2>6, <3>1, <3>2, <3>4 DEF StartAt, StartContainer
        <4> QED BY <3>2, <4>1 DEF Promise!Next, Promise!Attempt, Promise!vars
      <3> QED BY <3>3, <3>4
    <2>7. CASE Copy(n)
      BY <2>0, <2>7 DEF Copy, external, Promise!vars
    <2>8. CASE StopContainer(n)
      <3>1. PICK acked \in Answers :
              /\ StopAt(n, acked)
              /\ stage' = [stage EXCEPT ![n] = IF acked THEN "dns" ELSE "reply"]
        BY <2>8 DEF StopContainer
      <3>2. Phase(n) = "committed" /\ UNCHANGED <<dns, target, server>>
        BY <2>0, <2>8 DEF StopContainer
      <3>3. CASE acked
        <4>1. Phase(n)' = "stopped" /\ running' = running \ {n}
          BY <2>0, <2>8, <3>1, <3>2, <3>3 DEF StopAt, StopContainer
        <4> QED BY <3>2, <4>1 DEF Promise!Next, Promise!Stop
      <3>4. CASE ~acked
        <4>1. Phase(n)' = "settled" /\ running' \in {running, running \ {n}}
          BY <2>0, <2>8, <3>1, <3>2, <3>4 DEF StopAt, StopContainer
        <4> QED BY <3>2, <4>1 DEF Promise!Next, Promise!StopFails
      <3> QED BY <3>3, <3>4
    <2>9. CASE ModifyDns(n)
      BY <2>0, <2>9 DEF ModifyDns, DnsAt, Promise!Next, Promise!MoveDns
    <2>10. CASE TriggerReplies(n)
      BY <2>0, <2>10 DEF TriggerReplies, Return, Leave, external, Promise!Next, Promise!Finish
    <2> QED BY <1>1, <2>1, <2>2, <2>3, <2>4, <2>5, <2>6, <2>7, <2>8, <2>9, <2>10 DEF Trigger
  <1>2. IInv /\ [Next]_vars
          => [\A n \in Node : Trigger(n) => Promise(n)!Next \/ UNCHANGED Promise(n)!vars]_vars
    BY <1>1
  <1> QED BY <1>2, SpecKeepsIInv, PTL DEF Spec, AgentsKeepThePromise
=============================================================================
