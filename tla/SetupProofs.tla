----------------------------- MODULE SetupProofs -----------------------------
(* What the parts that set things up keep to, proved for every build and    *)
(* every configuration: nothing that was made is left behind or freed twice,*)
(* but for the troubles Ethernet names and the allocations whose failure the*)
(* code does not survive (Ethernet, Config).                                *)
EXTENDS Config, Ethernet, FiniteSetTheorems, TLAPS

-----------------------------------------------------------------------------
(* Ethernet.                                                                *)

(* The devices that the steps before `s` make.                              *)
MadeBefore(s) == {j \in DOMAIN Steps : j < s /\ Steps[j] \in Kinds}

(* The devices that are there are the first cnt ones, all of them whole,    *)
(* and the count is what the steps taken say; what the application has not  *)
(* got is not in use; the bus is marked as ours when it is.                 *)
EthernetInv ==
  /\ step \in 0..(Len(Steps) + 1)
  /\ cnt \in 0..N
  /\ handles \in {"none", "init", "app"}
  /\ handles = "init" <=> step # 0
  /\ initialised = 1..cnt
  /\ parts = [i \in 1..N |-> IF i <= cnt THEN Whole ELSE {}]
  /\ started \subseteq 1..N /\ posted \subseteq 1..N /\ event \in 0..N
  /\ handles # "app" => started = {} /\ posted = {}
  /\ handles # "app" /\ "handler" \notin trouble => event = 0
  /\ handles = "init" => cnt = Cardinality(MadeBefore(step))
  /\ handles = "app" => cnt = N
  /\ handles = "none" => cnt = 0 /\ handler = FALSE /\ spi # "us" /\ isr # "us"
  /\ ours = (spi = "us")
  /\ faults \subseteq trouble
  /\ isr = "other" => "service" \in trouble

LEMMA MadeBeforeIsFinite ==
  ASSUME NEW s
  PROVE  /\ IsFiniteSet(MadeBefore(s))
         /\ Cardinality(MadeBefore(s)) \in 0..N
         /\ N \in Nat
<1>1. DOMAIN Steps = 1..Len(Steps) /\ Len(Steps) \in Nat
  BY StepsAssumption
<1>2. IsFiniteSet(DOMAIN Steps)
  BY <1>1, FS_Interval
<1> DEFINE All == {i \in DOMAIN Steps : Steps[i] \in Kinds}
<1>3. IsFiniteSet(All)
  BY <1>2, FS_Subset
<1>4. MadeBefore(s) \subseteq All
  BY DEF MadeBefore
<1>5. IsFiniteSet(MadeBefore(s)) /\ Cardinality(MadeBefore(s)) <= Cardinality(All)
  BY <1>3, <1>4, FS_Subset
<1>6. Cardinality(All) \in Nat /\ Cardinality(MadeBefore(s)) \in Nat
  BY <1>3, <1>5, FS_CardinalityType
<1> QED
  BY <1>5, <1>6 DEF N

(* A step that makes a device counts one more, any other step none.         *)
LEMMA MadeBeforeNext ==
  ASSUME NEW s \in DOMAIN Steps
  PROVE  /\ Steps[s] \in Kinds =>
              /\ Cardinality(MadeBefore(s + 1)) = Cardinality(MadeBefore(s)) + 1
              /\ Cardinality(MadeBefore(s)) < N
         /\ Steps[s] \notin Kinds => MadeBefore(s + 1) = MadeBefore(s)
<1>1. DOMAIN Steps = 1..Len(Steps) /\ Len(Steps) \in Nat
  BY StepsAssumption
<1>2. CASE Steps[s] \in Kinds
  <2>1. MadeBefore(s + 1) = MadeBefore(s) \cup {s}
    BY <1>1, <1>2 DEF MadeBefore
  <2>2. s \notin MadeBefore(s)
    BY <1>1 DEF MadeBefore
  <2>3. Cardinality(MadeBefore(s + 1)) = Cardinality(MadeBefore(s)) + 1
    BY <2>1, <2>2, MadeBeforeIsFinite, FS_AddElement
  <2>4. /\ Cardinality(MadeBefore(s + 1)) \in 0..N
        /\ Cardinality(MadeBefore(s)) \in 0..N
        /\ N \in Nat
    BY MadeBeforeIsFinite
  <2> QED
    BY <1>2, <2>3, <2>4
<1>3. CASE Steps[s] \notin Kinds
  BY <1>1, <1>3 DEF MadeBefore
<1> QED
  BY <1>2, <1>3

(* At the first step nothing was made, after the last one all of it.        *)
LEMMA MadeBeforeEnds ==
  /\ Cardinality(MadeBefore(1)) = 0
  /\ Cardinality(MadeBefore(Len(Steps) + 1)) = N
<1>1. DOMAIN Steps = 1..Len(Steps) /\ Len(Steps) \in Nat
  BY StepsAssumption
<1>2. MadeBefore(1) = {}
  BY <1>1 DEF MadeBefore
<1>3. MadeBefore(Len(Steps) + 1) = {i \in DOMAIN Steps : Steps[i] \in Kinds}
  BY <1>1 DEF MadeBefore
<1> QED
  BY <1>2, <1>3, FS_EmptySet, Zenon DEF N

(* A device is made as a whole, or nothing of it is left.                   *)
LEMMA AllOrNothing ==
  ASSUME NEW kind \in Kinds
  PROVE  Outcomes(kind) \subseteq {Whole, {}}
<1>1. \A made \in Made : made \ Whole = {} /\ made \ {"mac", "phy"} = {}
  BY DEF Made, Whole
<1>2. EthInitInternal \subseteq {Whole, {}} /\ EthInitOpeneth \subseteq {Whole, {}}
  BY <1>1 DEF EthInitInternal, EthInitOpeneth
<1>3. EthInitSpi(kind) \subseteq {Whole, {}}
  BY <1>1 DEF EthInitSpi
<1>4. CASE kind = "internal"
  BY <1>2, <1>4 DEF Outcomes
<1>5. CASE kind = "openeth"
  BY <1>2, <1>5 DEF Outcomes
<1>6. CASE kind \in {"spi", "enc28j60"}
  BY <1>3, <1>6 DEF Outcomes
<1> QED
  BY <1>4, <1>5, <1>6 DEF Kinds

(* Undoing when no device is in use leaves nothing, and misuses nothing that*)
(* the troubles do not say.                                                 *)
LEMMA DeinitUndoesAll ==
  ASSUME EthernetInv, started = {}, NEW wild \in SUBSET trouble, UNCHANGED trouble,
         EthernetDeinitAll(parts, wild)
  PROVE  /\ parts' = [i \in 1..N |-> {}]
         /\ initialised' = {} /\ posted' = {} /\ cnt' = 0
         /\ handler' = FALSE /\ handles' = "none" /\ ours' = FALSE
         /\ spi' # "us" /\ isr' = "none" /\ faults' \subseteq trouble'
<1> DEFINE gone == {i \in initialised : i <= cnt /\ i \notin started}
<1>1. N \in Nat
  BY MadeBeforeIsFinite
<1>2. gone = 1..cnt /\ cnt \in Nat
  BY <1>1 DEF EthernetInv
<1>3. Cardinality(gone) = cnt
  <2>1. Cardinality(1..cnt) = cnt
    BY <1>2, FS_Interval
  <2> QED
    BY <1>2, <2>1
<1>4. /\ parts' = [i \in 1..N |-> IF i \in gone THEN {} ELSE parts[i]]
      /\ initialised' = initialised \ gone
      /\ posted' = posted \ gone
      /\ handler' = FALSE /\ handles' = "none" /\ cnt' = 0
      /\ spi' = IF ours THEN "none" ELSE spi
      /\ ours' = FALSE
      /\ isr' = "none"
      /\ faults' = wild \cup faults \cup {f \in {"bus"} : ours /\ spi = "other"}
                       \cup {f \in {"service"} : isr = "other"}
  BY <1>3 DEF EthernetDeinitAll
<1>5. \A i \in 1..N : (IF i \in gone THEN {} ELSE parts[i]) = {}
  BY <1>1, <1>2 DEF EthernetInv
<1>6. parts' = [i \in 1..N |-> {}]
  BY <1>4, <1>5
<1>7. initialised' = {}
  BY <1>2, <1>4 DEF EthernetInv
<1>8. posted' = {}
  <2>1. CASE handles = "app"
    BY <1>2, <1>4, <2>1 DEF EthernetInv
  <2>2. CASE handles # "app"
    BY <1>4, <2>2 DEF EthernetInv
  <2> QED
    BY <2>1, <2>2
<1>9. spi' # "us" /\ faults' \subseteq trouble'
  <2>1. {f \in {"bus"} : ours /\ spi = "other"} = {}
    BY DEF EthernetInv
  <2>2. {f \in {"service"} : isr = "other"} \subseteq trouble
    BY DEF EthernetInv
  <2> QED
    BY <1>4, <2>1, <2>2 DEF EthernetInv
<1> QED
  BY <1>4, <1>6, <1>7, <1>8, <1>9

LEMMA FailKeeps ==
  ASSUME EthernetInv, step # 0, NEW wild \in SUBSET trouble, UNCHANGED trouble,
         Fail(parts, wild)
  PROVE  EthernetInv'
<1>1. /\ started = {} /\ event \in 0..N /\ handles = "init"
      /\ "handler" \notin trouble => event = 0
  BY DEF EthernetInv
<1>2. EthernetDeinitAll(parts, wild) /\ step' = 0 /\ started' = started /\ event' = event
  BY DEF Fail
<1>3. /\ parts' = [i \in 1..N |-> {}]
      /\ initialised' = {} /\ posted' = {} /\ cnt' = 0
      /\ handler' = FALSE /\ handles' = "none" /\ ours' = FALSE
      /\ spi' # "us" /\ isr' = "none" /\ faults' \subseteq trouble'
  BY <1>1, <1>2, DeinitUndoesAll
<1>4. N \in Nat /\ Len(Steps) \in Nat
  BY MadeBeforeIsFinite, StepsAssumption
<1>5. parts' = [i \in 1..N |-> IF i <= cnt' THEN Whole ELSE {}] /\ initialised' = 1..cnt'
  BY <1>3, <1>4
<1>6. step' \in 0..(Len(Steps) + 1) /\ cnt' \in 0..N /\ event' \in 0..N
  BY <1>1, <1>2, <1>3, <1>4
<1>7. ours' = (spi' = "us")
  BY <1>3
<1> QED
  BY <1>1, <1>2, <1>3, <1>5, <1>6, <1>7 DEF EthernetInv

LEMMA EthernetInitially ==
  ASSUME EthernetInit
  PROVE  EthernetInv
<1>1. N \in Nat /\ Len(Steps) \in Nat
  BY MadeBeforeIsFinite, StepsAssumption
<1>2. parts = [i \in 1..N |-> IF i <= cnt THEN Whole ELSE {}] /\ initialised = 1..cnt
  BY <1>1 DEF EthernetInit
<1>3. step \in 0..(Len(Steps) + 1) /\ cnt \in 0..N /\ event \in 0..N
  BY <1>1 DEF EthernetInit
<1> QED
  BY <1>2, <1>3 DEF EthernetInit, EthernetInv

LEMMA EthernetInductive ==
  ASSUME CarefulDevices, EthernetInv, [EthernetNext]_ethernetVars
  PROVE  EthernetInv'
<1> USE DEF devices, shared, events
<1>0. N \in Nat /\ Len(Steps) \in Nat /\ DOMAIN Steps = 1..Len(Steps)
  BY MadeBeforeIsFinite, StepsAssumption
<1>a. UNCHANGED trouble
  BY DEF EthernetNext, ethernetVars
<1>1. CASE InitAll
  <2>1. CASE step' = 1 /\ handles' = "init"
    <3>1. cnt = 0 /\ Cardinality(MadeBefore(1)) = 0
      BY <1>1, MadeBeforeEnds DEF InitAll, EthernetInv
    <3> QED
      BY <1>0, <1>a, <1>1, <2>1, <3>1 DEF InitAll, EthernetInv
  <2>2. CASE UNCHANGED <<step, handles>>
    BY <1>a, <1>1, <2>2 DEF InitAll, EthernetInv, MadeBefore
  <2> QED
    BY <1>1, <2>1, <2>2 DEF InitAll
<1>2. CASE Device
  <2>1. PICK left \in Outcomes(Steps[step]) :
          LET now == [i \in 1..N |-> IF i = cnt + 1 THEN left ELSE parts[i]]
          IN  IF left = Whole
                THEN /\ parts' = now /\ initialised' = initialised \cup {cnt + 1}
                     /\ cnt' = cnt + 1 /\ step' = step + 1
                     /\ faults' = faults \cup {f \in {"overflow"} : cnt = N}
                     /\ UNCHANGED <<handles, started, handler, shared, events>>
                ELSE \E wild \in SUBSET {"chip"} :
                       (wild # {} => WildHandle(Steps[step], left)) /\ Fail(now, wild)
    BY <1>2 DEF Device
  <2>2. step \in DOMAIN Steps /\ Steps[step] \in Kinds
    BY <1>2 DEF Device, At
  <2>3. left \in {Whole, {}}
    BY <2>1, <2>2, AllOrNothing
  <2>4. /\ step \in 1..Len(Steps) /\ step # 0 /\ handles = "init"
        /\ cnt = Cardinality(MadeBefore(step))
    BY <1>0, <2>2 DEF EthernetInv
  <2>5. cnt < N /\ cnt + 1 = Cardinality(MadeBefore(step + 1)) /\ cnt \in Nat
    BY <1>0, <2>2, <2>4, MadeBeforeNext DEF EthernetInv
  <2>6. CASE left = Whole
    <3>1. /\ parts' = [i \in 1..N |-> IF i = cnt + 1 THEN Whole ELSE parts[i]]
          /\ initialised' = initialised \cup {cnt + 1}
          /\ cnt' = cnt + 1 /\ step' = step + 1
          /\ faults' = faults \cup {f \in {"overflow"} : cnt = N}
          /\ handles' = handles /\ started' = started /\ handler' = handler
          /\ isr' = isr /\ spi' = spi /\ ours' = ours /\ posted' = posted /\ event' = event
      BY <2>1, <2>6
    <3>2. parts' = [i \in 1..N |-> IF i <= cnt + 1 THEN Whole ELSE {}]
      BY <1>0, <2>5, <3>1 DEF EthernetInv
    <3>3. initialised' = 1..(cnt + 1)
      BY <2>5, <3>1 DEF EthernetInv
    <3>4. faults' \subseteq trouble'
      <4>1. {f \in {"overflow"} : cnt = N} = {}
        BY <1>0, <2>5
      <4> QED
        BY <1>a, <3>1, <4>1 DEF EthernetInv
    <3>5. (Cardinality(MadeBefore(step)))' = cnt + 1
      BY <2>5, <3>1 DEF MadeBefore
    <3>6. cnt' \in 0..N /\ step' \in 0..(Len(Steps) + 1) /\ step' # 0
      BY <1>0, <2>4, <2>5, <3>1
    <3> QED
      BY <1>a, <2>4, <3>1, <3>2, <3>3, <3>4, <3>5, <3>6 DEF EthernetInv
  <2>7. CASE left = {}
    <3>1. left # Whole
      BY <2>7 DEF Whole
    <3>2. [i \in 1..N |-> IF i = cnt + 1 THEN left ELSE parts[i]] = parts
      BY <1>0, <2>5, <2>7 DEF EthernetInv
    <3>3. PICK wild \in SUBSET {"chip"} :
            (wild # {} => WildHandle(Steps[step], left)) /\ Fail(parts, wild)
      BY <2>1, <3>1, <3>2
    <3>4. wild \in SUBSET trouble
      BY <3>3 DEF WildHandle
    <3> QED
      BY <1>a, <2>4, <3>3, <3>4, FailKeeps
  <2> QED
    BY <2>3, <2>6, <2>7
<1>3. CASE SpiBusInit
  <2>1. step \in DOMAIN Steps /\ Steps[step] \notin Kinds
    BY <1>3 DEF SpiBusInit, At, Kinds
  <2>2. /\ step \in 1..Len(Steps) /\ step # 0 /\ handles = "init"
        /\ Cardinality(MadeBefore(step + 1)) = cnt
    BY <1>0, <2>1, MadeBeforeNext DEF EthernetInv
  <2>3. CASE Fail(parts, {})
    BY <1>a, <2>2, <2>3, FailKeeps
  <2>4. CASE step' = step + 1 /\ ~Fail(parts, {})
    <3>1. (Cardinality(MadeBefore(step)))' = cnt
      BY <2>2, <2>4 DEF MadeBefore
    <3>2. step' \in 0..(Len(Steps) + 1) /\ step' # 0
      BY <1>0, <2>2, <2>4
    <3>3. /\ isr' = IF isr = "none" THEN "us" ELSE isr
          /\ spi' = IF spi = "none" THEN "us" ELSE spi
          /\ ours' = (ours \/ spi = "none")
          /\ UNCHANGED <<handles, devices, started, handler, events, faults>>
      BY <1>3, <2>4 DEF SpiBusInit
    <3> QED
      BY <1>a, <2>2, <3>1, <3>2, <3>3 DEF EthernetInv
  <2> QED
    BY <1>3, <2>3, <2>4 DEF SpiBusInit
<1>4. CASE RegisterHandler \/ Configure
  <2>1. step \in DOMAIN Steps /\ Steps[step] \notin Kinds
    BY <1>4 DEF RegisterHandler, Configure, At, Kinds
  <2>2. /\ step \in 1..Len(Steps) /\ step # 0 /\ handles = "init"
        /\ Cardinality(MadeBefore(step + 1)) = cnt
    BY <1>0, <2>1, MadeBeforeNext DEF EthernetInv
  <2>3. CASE Fail(parts, {})
    BY <1>a, <2>2, <2>3, FailKeeps
  <2>4. CASE step' = step + 1 /\ ~Fail(parts, {})
    <3>1. (Cardinality(MadeBefore(step)))' = cnt
      BY <2>2, <2>4 DEF MadeBefore
    <3>2. step' \in 0..(Len(Steps) + 1) /\ step' # 0
      BY <1>0, <2>2, <2>4
    <3>3. UNCHANGED <<handles, devices, started, shared, events, faults>>
      BY <1>4, <2>4 DEF RegisterHandler, Configure
    <3> QED
      BY <1>a, <2>2, <3>1, <3>2, <3>3 DEF EthernetInv
  <2> QED
    BY <1>4, <2>3, <2>4 DEF RegisterHandler, Configure
<1>5. CASE Return
  <2>1. step # 0 /\ handles = "init" /\ cnt = N
    BY <1>0, <1>5, MadeBeforeEnds DEF Return, EthernetInv
  <2> QED
    BY <1>a, <1>0, <1>5, <2>1 DEF Return, EthernetInv
<1>6. CASE DeinitAll
  <2>1. /\ step = 0 /\ handles = "app" /\ event \in 0..N /\ cnt = N
        /\ "handler" \notin trouble => event = 0
        /\ EthernetDeinitAll(parts, {})
        /\ step' = step /\ started' = started /\ event' = event
    BY <1>6 DEF DeinitAll, EthernetInv
  <2>2. started = {} \/ started = 1..N
    BY <1>6 DEF DeinitAll
  <2>3. CASE started = {}
    <3>1. /\ parts' = [i \in 1..N |-> {}]
          /\ initialised' = {} /\ posted' = {} /\ cnt' = 0
          /\ handler' = FALSE /\ handles' = "none" /\ ours' = FALSE
          /\ spi' # "us" /\ isr' = "none" /\ faults' \subseteq trouble'
      BY <1>a, <2>1, <2>3, DeinitUndoesAll
    <3>2. parts' = [i \in 1..N |-> IF i <= cnt' THEN Whole ELSE {}] /\ initialised' = 1..cnt'
      BY <1>0, <3>1
    <3>3. step' \in 0..(Len(Steps) + 1) /\ cnt' \in 0..N /\ event' \in 0..N
      BY <1>0, <2>1, <3>1
    <3>4. ours' = (spi' = "us")
      BY <3>1
    <3> QED
      BY <1>a, <2>1, <2>3, <3>1, <3>2, <3>3, <3>4 DEF EthernetInv
  <2>4. CASE started = 1..N /\ started # {}
    <3> DEFINE gone == {i \in initialised : i <= cnt /\ i \notin started}
    <3>1. gone = {} /\ N # 0
      BY <1>0, <2>1, <2>4 DEF EthernetInv
    <3>2. Cardinality(gone) # cnt
      BY <2>1, <3>1, FS_EmptySet
    <3>3. /\ parts' = [i \in 1..N |-> IF i \in gone THEN {} ELSE parts[i]]
          /\ initialised' = initialised \ gone
          /\ posted' = posted \ gone
          /\ faults' = faults
          /\ UNCHANGED <<handler, handles, cnt, spi, ours, isr>>
      BY <2>1, <3>2 DEF EthernetDeinitAll
    <3>4. parts' = parts /\ initialised' = initialised /\ posted' = posted
      BY <3>1, <3>3 DEF EthernetInv
    <3> QED
      BY <1>a, <2>1, <3>3, <3>4 DEF EthernetInv
  <2> QED
    BY <2>2, <2>3, <2>4
<1>7. ASSUME NEW i \in 1..N, Switch(i) \/ LinkUp(i) \/ Event(i)
      PROVE  EthernetInv'
  <2>1. UNCHANGED <<step, handles, devices, shared, faults>>
    BY <1>7 DEF Switch, LinkUp, Event
  <2>2. (Cardinality(MadeBefore(step)))' = Cardinality(MadeBefore(step))
    BY <2>1 DEF MadeBefore
  <2>3. handles = "app"
    BY <1>7 DEF Switch, LinkUp, Event, EthernetInv
  <2>4. started' \subseteq 1..N /\ posted' \subseteq 1..N /\ event' \in 0..N
    <3>1. started \subseteq 1..N /\ posted \subseteq 1..N /\ event \in 0..N /\ i \in 0..N
      BY <1>0, <1>7 DEF EthernetInv
    <3> QED
      BY <1>7, <3>1 DEF Switch, LinkUp, Event
  <2> QED
    BY <1>a, <2>1, <2>2, <2>3, <2>4 DEF EthernetInv
<1>8. CASE AskDriver
  <2>1. ASSUME "handler" \notin trouble PROVE parts[event] = Whole
    <3>1. handles = "app" /\ cnt = N /\ event \in 1..N
      BY <1>0, <1>8, <2>1 DEF AskDriver, EthernetInv
    <3> QED
      BY <1>0, <3>1 DEF EthernetInv
  <2>2. {f \in {"handler"} : parts[event] # Whole} \subseteq trouble
    BY <2>1
  <2>3. faults' \subseteq trouble' /\ event' = 0
    BY <1>a, <1>8, <2>2 DEF AskDriver, EthernetInv
  <2>4. UNCHANGED <<step, handles, devices, started, handler, shared, posted>>
    BY <1>8 DEF AskDriver
  <2>5. (Cardinality(MadeBefore(step)))' = Cardinality(MadeBefore(step))
    BY <2>4 DEF MadeBefore
  <2> QED
    BY <1>a, <1>0, <2>3, <2>4, <2>5 DEF EthernetInv
<1>9. CASE Other
  <2>1. UNCHANGED <<step, handles, devices, started, handler, ours, events, faults>>
    BY <1>9 DEF Other
  <2>2. (Cardinality(MadeBefore(step)))' = Cardinality(MadeBefore(step))
    BY <2>1 DEF MadeBefore
  <2>3. (spi' = "us") = (spi = "us")
    BY <1>9 DEF Other
  <2>4. /\ isr # "us" => isr' # "us"
        /\ isr' = "other" => isr = "other" \/ "service" \in trouble
    BY <1>9 DEF Other
  <2> QED
    BY <1>a, <2>1, <2>2, <2>3, <2>4 DEF EthernetInv
<1>10. CASE UNCHANGED ethernetVars
  BY <1>10 DEF ethernetVars, EthernetInv, MadeBefore
<1> QED
  BY <1>1, <1>2, <1>3, <1>4, <1>5, <1>6, <1>7, <1>8, <1>9, <1>10 DEF EthernetNext, EthernetStep

(* Whatever a build initialises and whichever step fails, the devices that  *)
(* are there are the first ones, whole, as many as counted.                 *)
THEOREM EthernetInvariant ==
  ASSUME CarefulDevices
  PROVE  EthernetSpec => []EthernetInv
<1>1. EthernetInit => EthernetInv
  BY EthernetInitially
<1>2. EthernetInv /\ [EthernetNext]_ethernetVars => EthernetInv'
  BY EthernetInductive
<1> QED
  BY <1>1, <1>2, PTL DEF EthernetSpec

(* For every build: whichever step of ethernet_init_all fails, and after    *)
(* ethernet_deinit_all of an application that starts all devices or none,   *)
(* nothing is left behind, the handles given out are all of drivers, no     *)
(* other component's bus is freed, and a wild handle, the interrupt service *)
(* of another or a driver that is gone is used only in a behaviour with that*)
(* trouble (ethernet_init.c:772, ethernet_init.c:811).                      *)
THEOREM UndoneAlways ==
  ASSUME CarefulDevices
  PROVE  EthernetSpec => []Undone
<1>1. EthernetInv => Undone
  <2> SUFFICES ASSUME EthernetInv PROVE Undone
    OBVIOUS
  <2>0. N \in Nat
    BY MadeBeforeIsFinite
  <2>1. ASSUME step = 0, handles = "none"
        PROVE  /\ cnt = 0 /\ initialised = {} /\ \A i \in 1..N : parts[i] = {}
               /\ ~handler /\ ~ours /\ spi # "us" /\ isr # "us"
    <3>1. cnt = 0 /\ ~handler /\ ~ours /\ spi # "us" /\ isr # "us"
      BY <2>1 DEF EthernetInv
    <3>2. initialised = {} /\ \A i \in 1..N : parts[i] = {}
      BY <2>0, <3>1 DEF EthernetInv
    <3> QED
      BY <3>1, <3>2
  <2>2. ASSUME handles = "app"
        PROVE  cnt = N /\ \A i \in 1..N : parts[i] = Whole
    BY <2>0, <2>2 DEF EthernetInv
  <2>3. faults \subseteq trouble
    BY DEF EthernetInv
  <2> QED
    BY <2>1, <2>2, <2>3 DEF Undone
<1>2. EthernetSpec => []EthernetInv
  BY EthernetInvariant
<1> QED
  BY <1>1, <1>2, PTL

-----------------------------------------------------------------------------
(* The configuration of a client.                                          *)

StringSet == {Strings[i] : i \in DOMAIN Strings}
ConnectSet == {ConnectStrings[i] : i \in DOMAIN ConnectStrings}

(* A client with nothing freed in it, and one with nothing left in it.      *)
Heaps(values) == [own : [Blocks -> values], lost : {{}}, fault : {FALSE}]
Tidy(h) == h \in Heaps({"live", "null"})
Emptied(h) == h \in Heaps({"null", "dangling"}) /\ h.own["config"] = "null"

(* What the task needs of a configuration, and what MQTT 5 adds.            *)
Needed == {"config", "buffer", "in_buffer"}
Configuration(h) == Tidy(h) /\ \A f \in Needed : h.own[f] = "live"
Extension(h, v) ==
  IF v = 5 THEN \A f \in Five : h.own[f] = "live"
           ELSE \A f \in Five \cup Stored : h.own[f] = "null"
Complete(h, v) == Configuration(h) /\ Extension(h, v)

(* A client has its whole configuration or, stopped after a failure,        *)
(* nothing of it; a transport in use has nothing that was replaced.         *)
ConfigInv ==
  /\ mode \in {"none", "stopped", "waiting", "before", "connected"}
  /\ version \in {0, 3, 4, 5}
  /\ version # 0 => Complete(heap, version)
  /\ version = 0 => Emptied(heap) /\ mode \in {"none", "stopped"}
  /\ mode = "none" => version = 0 /\ \A f \in Blocks : heap.own[f] = "null"
  /\ mode = "before" => \A f \in DOMAIN lent : lent[f] # "stale"
  /\ mode = "connected" => read # "garbage"
  /\ scarce \in Failing

-----------------------------------------------------------------------------
LEMMA StringsAre ==
  /\ StringSet = {"config", "buffer", "in_buffer", "host", "path", "username", "password",
                  "client_id", "uri", "will_topic", "will_message", "if_name",
                  "alpn_protos", "alpn_proto", "clientkey_password", "scheme"}
  /\ ConnectSet = {"peer_topic_alias", "connect_user", "content_type", "response_topic",
                   "correlation_data", "will_user"}
BY DEF StringSet, ConnectSet, Strings, ConnectStrings

LEMMA BlocksAre ==
  /\ Blocks = StringSet \cup Five \cup Stored
  /\ Stored = ConnectSet \cup {"disconnect_user"}
  /\ StringSet \cap (Five \cup Stored) = {}
  /\ Five \cap Stored = {}
  /\ Needed \subseteq StringSet
<1>1. Blocks = StringSet \cup Five \cup Stored /\ Stored = ConnectSet \cup {"disconnect_user"}
  BY DEF Blocks, Stored, StringSet, ConnectSet
<1> QED
  BY <1>1, StringsAre DEF Five, Needed

-----------------------------------------------------------------------------
(* What the helpers do to a tidy heap.                                      *)

LEMMA AssignKeeps ==
  ASSUME NEW h, Tidy(h), NEW live, NEW null, NEW kept,
         \A f \in kept \cap (live \cup null) \cap Blocks : h.own[f] # "live",
         live \subseteq Blocks, null \subseteq Blocks
  PROVE  LET g == Assign(h, live, null, kept)
         IN  /\ Tidy(g)
             /\ \A f \in Blocks : g.own[f] = IF f \in live THEN "live"
                                             ELSE IF f \in null THEN "null" ELSE h.own[f]
<1> DEFINE g == Assign(h, live, null, kept)
<1>1. /\ h.own \in [Blocks -> {"live", "null"}] /\ h.lost = {} /\ h.fault = FALSE
  BY DEF Tidy, Heaps
<1>2. {f \in kept \cap (live \cup null) : h.own[f] = "live"} = {}
  OBVIOUS
<1>3. ~ \E f \in (live \cup null) \ kept : h.own[f] = "dangling"
  BY <1>1
<1>4. g = [own |-> [f \in Blocks |-> IF f \in live THEN "live"
                                     ELSE IF f \in null THEN "null" ELSE h.own[f]],
           lost |-> {}, fault |-> FALSE]
  BY <1>1, <1>2, <1>3 DEF Assign
<1>5. [f \in Blocks |-> IF f \in live THEN "live" ELSE IF f \in null THEN "null" ELSE h.own[f]]
        \in [Blocks -> {"live", "null"}]
  BY <1>1
<1>6. Tidy(g)
  BY <1>4, <1>5 DEF Tidy, Heaps
<1> QED
  BY <1>4, <1>6

(* Fields set one after the other, up to the one that fails.                *)
Before(order, bad) == {order[i] : i \in {j \in DOMAIN order : \A k \in 1..j : order[k] # bad}}

LEMMA SetKeeps ==
  ASSUME NEW h, Tidy(h), NEW order, NEW gives, NEW bad, NEW kept,
         {order[i] : i \in DOMAIN order} \subseteq Blocks,
         bad \in gives => bad \in Blocks,
         \A f \in kept \cap gives \cap Blocks : h.own[f] # "live"
  PROVE  LET g == SetIfConfig(h, order, gives, bad, kept)
         IN  /\ Tidy(g)
             /\ \A f \in Blocks : g.own[f] = IF f \in Before(order, bad) \cap gives THEN "live"
                                             ELSE IF f \in {bad} \cap gives THEN "null"
                                             ELSE h.own[f]
<1> DEFINE live == Before(order, bad) \cap gives
           null == {bad} \cap gives
<1>1. live \subseteq Blocks /\ null \subseteq Blocks
  BY DEF Before
<1>2. \A f \in kept \cap (live \cup null) \cap Blocks : h.own[f] # "live"
  OBVIOUS
<1>3. SetIfConfig(h, order, gives, bad, kept) = Assign(h, live, null, kept)
  BY DEF SetIfConfig, Before
<1> HIDE DEF live, null
<1>4. LET g == Assign(h, live, null, kept)
      IN  /\ Tidy(g)
          /\ \A f \in Blocks : g.own[f] = IF f \in live THEN "live"
                                          ELSE IF f \in null THEN "null" ELSE h.own[f]
  BY <1>1, <1>2, AssignKeeps
<1> QED
  BY <1>3, <1>4 DEF live, null

(* How far the strings of a configuration are set.                          *)
LEMMA StringsBefore ==
  ASSUME NEW bad
  PROVE  /\ Before(Strings, bad) \subseteq StringSet
         /\ bad = "none" => Before(Strings, bad) = StringSet
         /\ bad # "config" => "config" \in Before(Strings, bad)
         /\ bad \notin {"config", "buffer", "in_buffer"} =>
              {"config", "buffer", "in_buffer"} \subseteq Before(Strings, bad)
<1>1. /\ DOMAIN Strings = 1..16
      /\ Strings[1] = "config" /\ Strings[2] = "buffer" /\ Strings[3] = "in_buffer"
  BY DEF Strings
<1>2. Before(Strings, bad) \subseteq StringSet
  BY DEF Before, StringSet
<1>3. ASSUME bad = "none" PROVE Before(Strings, bad) = StringSet
  <2>1. \A k \in DOMAIN Strings : Strings[k] # "none"
    BY StringsAre DEF StringSet
  <2>2. {j \in DOMAIN Strings : \A k \in 1..j : Strings[k] # bad} = DOMAIN Strings
    BY <1>1, <1>3, <2>1
  <2> QED
    BY <2>2 DEF Before, StringSet
<1>4. ASSUME bad # "config" PROVE "config" \in Before(Strings, bad)
  <2>1. 1 \in {j \in DOMAIN Strings : \A k \in 1..j : Strings[k] # bad}
    BY <1>1, <1>4
  <2> QED
    BY <1>1, <2>1 DEF Before
<1>5. ASSUME bad \notin {"config", "buffer", "in_buffer"}
      PROVE  {"config", "buffer", "in_buffer"} \subseteq Before(Strings, bad)
  <2>1. {1, 2, 3} \subseteq {j \in DOMAIN Strings : \A k \in 1..j : Strings[k] # bad}
    BY <1>1, <1>5
  <2> QED
    BY <1>1, <2>1 DEF Before
<1> QED
  BY <1>2, <1>3, <1>4, <1>5

(* A configuration that is freed, whole or in part, leaves nothing.         *)
LEMMA DestroyEmpties ==
  ASSUME NEW h, Tidy(h), NEW v,
         h.own["config"] = "live",
         v # 5 => \A f \in Five \cup Stored : h.own[f] = "null"
  PROVE  Emptied(DestroyConfig(h, v))
<1> DEFINE five == IF v = 5 THEN Five ELSE {}
           gone == StringSet \cup five \cup (IF v = 5 THEN Stored ELSE {})
           own == [f \in Blocks |->
                     IF f \in {"buffer", "in_buffer"} \cup five
                       THEN IF h.own[f] = "null" THEN "null" ELSE "dangling"
                       ELSE IF f \in gone THEN "null" ELSE h.own[f]]
<1>1. /\ h.own \in [Blocks -> {"live", "null"}] /\ h.lost = {} /\ h.fault = FALSE
  BY DEF Tidy, Heaps
<1>2. gone \subseteq Blocks
  BY BlocksAre
<1>3. DestroyConfig(h, v) = [own |-> own, lost |-> h.lost,
                             fault |-> h.fault \/ \E f \in gone : h.own[f] = "dangling"]
  BY DEF DestroyConfig, StringSet
<1>4. ~ \E f \in gone : h.own[f] = "dangling"
  BY <1>1, <1>2
<1>5. DestroyConfig(h, v) = [own |-> own, lost |-> {}, fault |-> FALSE]
  BY <1>1, <1>3, <1>4
<1>6. \A f \in Blocks : f \in gone \/ h.own[f] = "null"
  BY BlocksAre
<1>7. own \in [Blocks -> {"null", "dangling"}]
  BY <1>6
<1>8. "config" \in Blocks /\ "config" \in gone /\ "config" \notin {"buffer", "in_buffer"} \cup five
  BY BlocksAre, StringsAre DEF Five
<1>9. own["config"] = "null"
  BY <1>8
<1> HIDE DEF own
<1> QED
  BY <1>5, <1>7, <1>9 DEF Emptied, Heaps

LEMMA NothingTwice ==
  ASSUME NEW h, Emptied(h), NEW v
  PROVE  DestroyConfig(h, v) = h
BY DEF DestroyConfig, Emptied

(* A client that goes away, whole, in part or emptied before, leaves        *)
(* nothing and loses nothing.                                               *)
LEMMA DestroyClientEmpties ==
  ASSUME NEW h, NEW v,
         \/ Emptied(h)
         \/ /\ Tidy(h) /\ h.own["config"] = "live"
            /\ v # 5 => \A f \in Five \cup Stored : h.own[f] = "null"
  PROVE  LET g == DestroyClient(h, v)
         IN  Emptied(g) /\ \A f \in Blocks : g.own[f] = "null"
<1> DEFINE g == DestroyConfig(h, v)
<1>1. Emptied(g)
  BY DestroyEmpties, NothingTwice
<1> HIDE DEF g
<1>2. {f \in Blocks : g.own[f] = "live"} = {} /\ g.lost = {} /\ g.fault = FALSE
  BY <1>1 DEF Emptied, Heaps
<1>3. DestroyClient(h, v) = [own |-> [f \in Blocks |-> "null"], lost |-> {}, fault |-> FALSE]
  BY <1>2 DEF DestroyClient, g
<1>4. "config" \in Blocks
  BY BlocksAre, StringsAre
<1> QED
  BY <1>3, <1>4 DEF Emptied, Heaps

(* A fault that is none.                                                    *)
Excused(h, condition) == [h EXCEPT !.fault = @ \/ condition]

LEMMA ExcusedIsSame ==
  ASSUME NEW h, NEW values, h \in Heaps(values), NEW condition, ~condition
  PROVE  Excused(h, condition) = h
<1>1. h.fault = FALSE /\ h \in [own : [Blocks -> values], lost : {{}}, fault : {FALSE}]
  BY DEF Heaps
<1>2. (h.fault \/ condition) = h.fault
  BY <1>1
<1>3. [h EXCEPT !.fault = h.fault] = h
  BY <1>1
<1> QED
  BY <1>2, <1>3 DEF Excused

(* An address replaces what it gives and the rest of an address.            *)
LEMMA UriSetKeeps ==
  ASSUME NEW h, Tidy(h), h.own["config"] = "live", NEW u, NEW missing,
         u.gives \subseteq {"path", "username", "password"},
         \A f \in u.gives \cap {"username", "password"} : h.own[f] # "live"
  PROVE  LET g == UriSet(h, u, missing)
         IN  /\ Tidy(g)
             /\ \A f \in Needed \cup Five \cup Stored : g.own[f] = h.own[f]
<1> DEFINE user == IF UriOk(missing) /\ "user_info" \notin missing
                     THEN u.gives \cap {"username", "password"} ELSE {}
           new == {"scheme", "host"} \cup ({"path"} \cap u.gives) \cup user
           live == new \ missing
           null == (new \cap missing) \cup ({"path"} \ u.gives)
           kept == {"username", "password"}
           g == Assign(h, live, null, kept)
<1>0. /\ live \subseteq {"scheme", "host", "path", "username", "password"}
      /\ null \subseteq {"scheme", "host", "path", "username", "password"}
      /\ kept \cap (live \cup null) \subseteq u.gives
  OBVIOUS
<1>1. live \subseteq Blocks /\ null \subseteq Blocks
  BY <1>0, BlocksAre, StringsAre
<1>2. \A f \in kept \cap (live \cup null) \cap Blocks : h.own[f] # "live"
  BY <1>0
<1>3. UriSet(h, u, missing) = Excused(g, h.own["config"] # "live")
  BY DEF UriSet, Excused
<1>4. \A f \in Needed \cup Five \cup Stored : f \in Blocks /\ f \notin live /\ f \notin null
  BY <1>0, BlocksAre, StringsAre DEF Needed, Five
<1> HIDE DEF user, new, live, null, kept
<1>5. /\ Tidy(g)
      /\ \A f \in Blocks : g.own[f] = IF f \in live THEN "live"
                                      ELSE IF f \in null THEN "null" ELSE h.own[f]
  BY <1>1, <1>2, AssignKeeps
<1> HIDE DEF g
<1>6. UriSet(h, u, missing) = g
  BY <1>3, <1>5, ExcusedIsSame DEF Tidy
<1> QED
  BY <1>4, <1>5, <1>6

(* What the application may ask for, and what may fail, when it keeps to    *)
(* what the code handles.                                                   *)
MayAsk(h, v, r) ==
  /\ r.gives \subseteq StringSet \ {"config", "buffer", "in_buffer", "scheme"}
  /\ r.version \in {0, 3, 4, 5}
  /\ r.uri.gives \subseteq {"path", "username", "password"}
  /\ \A f \in {"if_name", "clientkey_password"} \cap r.gives : h.own[f] # "live"
  /\ "uri" \in r.gives =>
       /\ \A f \in {"username", "password"} \cap r.uri.gives : h.own[f] # "live"
       /\ r.gives \cap r.uri.gives \cap {"username", "password"} = {}
  /\ v # 0 => r.version \in {0, v}

LEMMA NothingThere ==
  ASSUME NEW h, Tidy(h), \A f \in Blocks : h.own[f] = "null"
  PROVE  Emptied(h)
<1>1. "config" \in Blocks
  BY BlocksAre, StringsAre
<1>2. h.own \in [Blocks -> {"live", "null"}]
  BY DEF Tidy, Heaps
<1>3. h.own \in [Blocks -> {"null", "dangling"}]
  BY <1>2
<1> QED
  BY <1>1, <1>3 DEF Emptied, Tidy, Heaps

LEMMA NothingIsTidy ==
  ASSUME NEW h, Emptied(h), \A f \in Blocks : h.own[f] = "null"
  PROVE  Tidy(h)
<1>1. h.own \in [Blocks -> {"null", "dangling"}]
  BY DEF Emptied, Heaps
<1>2. h.own \in [Blocks -> {"live", "null"}]
  BY <1>1
<1> QED
  BY <1>2 DEF Emptied, Tidy, Heaps

(* A configuration that is set is whole, and one that is not leaves nothing;*)
(* what MQTT 5 adds is as it was.  With all memory had and an address that  *)
(* is one it is set.                                                        *)
LEMMA ConfiguredKeeps ==
  ASSUME NEW h, NEW v \in {0, 3, 4, 5}, NEW r, NEW bad, NEW missing,
         MayAsk(h, v, r),
         v # 0 => Complete(h, v),
         v = 0 => Tidy(h) /\ \A f \in Blocks : h.own[f] = "null",
         bad \in {"none"} \cup Asked(h, r),
         bad \notin {"buffer", "in_buffer", "alpn_protos"}
  PROVE  LET c == Configured(h, v, r, bad, missing)
         IN  \/ /\ c.result \in {"ok", "conflict"} /\ c.version \in {3, 4, 5}
                /\ v # 0 => c.version = v
                /\ Configuration(c.heap)
                /\ \A f \in Five \cup Stored : c.heap.own[f] = h.own[f]
             \/ /\ c.result \notin {"ok", "conflict"} /\ c.version = 0 /\ Emptied(c.heap)
                /\ \/ bad # "none"
                   \/ "uri" \in r.gives /\ (r.uri.scheme = "bad" \/ ~UriOk(missing))
<1> DEFINE asked == Asked(h, r)
           g == SetIfConfig(h, Strings, asked, bad, {"if_name", "clientkey_password"})
           k == Excused(g, bad = "alpn_protos")
           w == CASE bad \notin Late -> v
                  [] bad \in Late /\ r.version # 0 -> r.version
                  [] OTHER -> IF v = 0 THEN 3 ELSE v
           u == UriSet(k, r.uri, missing)
           c == Configured(h, v, r, bad, missing)
<1>1. /\ r.gives \subseteq StringSet \ {"config", "buffer", "in_buffer", "scheme"}
      /\ r.version \in {0, 3, 4, 5}
      /\ r.uri.gives \subseteq {"path", "username", "password"}
  BY DEF MayAsk
<1>2. Tidy(h)
  BY DEF Complete, Configuration
<1>3. asked \subseteq StringSet
  BY <1>1, StringsAre DEF Asked
<1>4. \A f \in {"if_name", "clientkey_password"} \cap asked \cap Blocks : h.own[f] # "live"
  <2>1. {"if_name", "clientkey_password"} \cap asked \subseteq r.gives
    BY DEF Asked
  <2> QED
    BY <2>1 DEF MayAsk
<1>5. /\ Tidy(g)
      /\ \A f \in Blocks : g.own[f] = IF f \in Before(Strings, bad) \cap asked THEN "live"
                                      ELSE IF f \in {bad} \cap asked THEN "null"
                                      ELSE h.own[f]
  <2>1. {Strings[i] : i \in DOMAIN Strings} \subseteq Blocks
    BY BlocksAre DEF StringSet
  <2>2. bad \in asked => bad \in Blocks
    BY <1>3, BlocksAre
  <2> HIDE DEF asked
  <2> QED
    BY <1>2, <1>4, <2>1, <2>2, SetKeeps
<1>6. k = g
  BY <1>5, ExcusedIsSame DEF Tidy
<1>7. \A f \in Five \cup Stored : g.own[f] = h.own[f]
  <2>1. \A f \in Five \cup Stored : f \in Blocks /\ f \notin asked
    BY <1>3, BlocksAre
  <2> HIDE DEF asked, g
  <2> QED
    BY <1>5, <2>1
<1>8. v # 5 => \A f \in Five \cup Stored : h.own[f] = "null"
  BY BlocksAre DEF Complete, Extension
<1>9. w \in {0, 3, 4, 5} /\ (v # 0 => w = v) /\ (bad = "none" => w # 0)
  BY <1>1 DEF MayAsk, Late
<1>10. w # 5 => \A f \in Five \cup Stored : g.own[f] = "null"
  <2>1. w # 5 => v # 5
    BY <1>9
  <2> HIDE DEF w, g
  <2> QED
    BY <1>7, <1>8, <2>1
<1>11. \A f \in Needed : h.own[f] # "live" => f \in asked
  <2>1. \A f \in Blocks : h.own[f] \in {"live", "null"}
    BY <1>2 DEF Tidy, Heaps
  <2>2. \A f \in Needed : f \in Blocks
    BY BlocksAre
  <2> QED
    BY <2>1, <2>2 DEF Needed, Asked
<1>12. ASSUME bad # "config" PROVE g.own["config"] = "live"
  <2>1. "config" \in Before(Strings, bad) /\ "config" \in Needed /\ "config" \in Blocks
    BY <1>12, StringsBefore, BlocksAre, StringsAre DEF Needed
  <2>2. "config" \notin {bad} \cap asked
    BY <1>12
  <2> HIDE DEF asked, g
  <2> QED
    BY <1>5, <1>11, <2>1, <2>2
<1>13. ASSUME bad = "none" PROVE Configuration(g)
  <2>1. \A f \in Needed : f \in Before(Strings, bad) /\ f \in Blocks /\ f \notin {bad}
    BY <1>13, StringsBefore, BlocksAre, StringsAre DEF Needed
  <2> HIDE DEF asked, g
  <2> QED
    BY <1>5, <1>11, <2>1 DEF Configuration
<1>14. Configured(h, v, r, bad, missing) =
         CASE bad = "config" -> [heap |-> h, version |-> v, result |-> "no_mem"]
           [] bad \in {"buffer", "in_buffer"} ->
                [heap |-> DestroyConfig(k, w), version |-> 0, result |-> "ok"]
           [] bad \notin {"none", "config", "buffer", "in_buffer"} ->
                [heap |-> DestroyConfig(k, w), version |-> 0, result |-> "no_mem"]
           [] bad = "none" /\ "uri" \notin r.gives ->
                [heap |-> k, version |-> w, result |-> WithConflict(r, k)]
           [] bad = "none" /\ "uri" \in r.gives ->
                IF r.uri.scheme = "bad"
                  THEN [heap |-> DestroyConfig(k, w), version |-> 0, result |-> "fail"]
                ELSE IF UriOk(missing)
                  THEN [heap |-> u, version |-> w, result |-> WithConflict(r, u)]
                ELSE [heap |-> DestroyConfig(u, w), version |-> 0, result |-> "fail"]
  BY DEF Configured, Excused
<1>b. \A x : WithConflict(r, x) \in {"ok", "conflict"}
  BY DEF WithConflict
<1> HIDE DEF w, g, k, asked
<1>15. CASE bad = "config"
  <2>1. v = 0
    <3>1. bad \in Asked(h, r) /\ bad \notin r.gives
      BY <1>1, <1>15
    <3>2. h.own["config"] = "null"
      BY <1>15, <3>1 DEF Asked
    <3>3. h.own["config"] # "live"
      BY <3>2
    <3> QED
      BY <3>3 DEF Complete, Configuration, Needed
  <2>2. Emptied(h)
    BY <2>1, NothingThere
  <2> QED
    BY <1>14, <1>15, <2>1, <2>2
<1>16. CASE bad \notin {"none", "config"}
  <2>1. c.heap = DestroyConfig(g, w) /\ c.version = 0 /\ c.result = "no_mem"
    BY <1>6, <1>14, <1>16
  <2>2. Emptied(DestroyConfig(g, w))
    BY <1>5, <1>10, <1>12, <1>16, DestroyEmpties
  <2> QED
    BY <1>16, <2>1, <2>2
<1>17. CASE bad = "none" /\ "uri" \notin r.gives
  <2>1. c.heap = g /\ c.version = w /\ c.result \in {"ok", "conflict"}
    BY <1>6, <1>14, <1>b, <1>17
  <2> QED
    BY <1>7, <1>9, <1>13, <1>17, <2>1
<1>18. CASE bad = "none" /\ "uri" \in r.gives
  <2>1. g.own["config"] = "live" /\ Configuration(g)
    BY <1>12, <1>13, <1>18
  <2>2. Emptied(DestroyConfig(g, w))
    BY <1>5, <1>10, <2>1, DestroyEmpties
  <2>3. \A f \in r.uri.gives \cap {"username", "password"} : g.own[f] # "live"
    <3> SUFFICES ASSUME NEW f \in r.uri.gives \cap {"username", "password"}
                 PROVE  g.own[f] # "live"
      OBVIOUS
    <3>1. f \notin r.gives /\ h.own[f] # "live"
      BY <1>18 DEF MayAsk
    <3>2. f \notin asked
      BY <3>1 DEF Asked, asked
    <3>3. f \in Blocks
      BY BlocksAre, StringsAre
    <3> QED
      BY <1>5, <3>1, <3>2, <3>3
  <2>4. /\ Tidy(u)
        /\ \A f \in Needed \cup Five \cup Stored : u.own[f] = g.own[f]
    BY <1>1, <1>5, <1>6, <2>1, <2>3, UriSetKeeps
  <2> HIDE DEF u
  <2>5. Configuration(u) /\ u.own["config"] = "live"
    BY <2>1, <2>4 DEF Configuration, Needed
  <2>6. w # 5 => \A f \in Five \cup Stored : u.own[f] = "null"
    BY <1>10, <2>4
  <2>7. Emptied(DestroyConfig(u, w))
    BY <2>4, <2>5, <2>6, DestroyEmpties
  <2>8. CASE r.uri.scheme = "bad"
    <3>1. c.heap = DestroyConfig(g, w) /\ c.version = 0 /\ c.result = "fail"
      BY <1>6, <1>14, <1>18, <2>8
    <3> QED
      BY <1>18, <2>2, <2>8, <3>1
  <2>9. CASE r.uri.scheme # "bad" /\ UriOk(missing)
    <3>1. c.heap = u /\ c.version = w /\ c.result \in {"ok", "conflict"}
      BY <1>14, <1>b, <1>18, <2>9
    <3> QED
      BY <1>7, <1>9, <1>18, <2>4, <2>5, <3>1
  <2>10. CASE r.uri.scheme # "bad" /\ ~UriOk(missing)
    <3>1. c.heap = DestroyConfig(u, w) /\ c.version = 0 /\ c.result = "fail"
      BY <1>14, <1>18, <2>10
    <3> QED
      BY <1>18, <2>7, <2>10, <3>1
  <2> QED
    BY <2>8, <2>9, <2>10
<1> QED
  BY <1>15, <1>16, <1>17, <1>18

-----------------------------------------------------------------------------
(* The steps.                                                               *)

LEMMA ConfigInitially ==
  ASSUME ConfigInit
  PROVE  ConfigInv
<1>1. "config" \in Blocks
  BY BlocksAre, StringsAre
<1> QED
  BY <1>1 DEF ConfigInit, ConfigInv, Emptied, Heaps

LEMMA RequestsAre ==
  ASSUME NEW r \in Requests
  PROVE  /\ r.gives \subseteq StringSet \ {"config", "buffer", "in_buffer", "scheme"}
         /\ r.version \in {0, 3, 4, 5}
         /\ r.uri.gives \subseteq {"path", "username", "password"}
BY ConfigAssumption DEF StringSet

(* What may fail is survivable.                                             *)
LEMMA BadsAre ==
  ASSUME ConfigInv, Survivable, NEW asked, NEW bad \in BadOf(asked)
  PROVE  /\ bad \in {"none"} \cup asked
         /\ bad \notin {"buffer", "in_buffer", "alpn_protos", "user_property"}
         /\ scarce = {} => bad = "none"
BY DEF ConfigInv, Survivable, BadOf

(* A client that is made, with the allocation that fails.                   *)
ClientInitWith(r, bad, missing) ==
  LET c == Configured(heap, 0, r, IF bad \in Five THEN "none" ELSE bad, missing)
      five == IF c.version = 5
                THEN SetIfConfig(c.heap, <<"property", "mqtt5_config">>, Five, bad, {})
                ELSE c.heap
      done == c.result = "ok" /\ (c.version = 5 => bad \notin Five)
  IN  /\ heap' = IF done THEN [five EXCEPT !.fault = @ \/ five.own["config"] # "live"]
                 ELSE DestroyClient(five, c.version)
      /\ mode' = IF done THEN "stopped" ELSE "none"
      /\ version' = IF done THEN c.version ELSE 0
      /\ scheme' = IF done THEN SchemeOf(r, c.heap) ELSE "none"

LEMMA ClientInitKeeps ==
  ASSUME ConfigInv, Careful, Survivable, UNCHANGED scarce, NEW r \in Requests, ClientInit(r)
  PROVE  ConfigInv'
<1>1. /\ mode = "none" /\ version = 0 /\ Emptied(heap) /\ Tidy(heap)
      /\ \A f \in Blocks : heap.own[f] = "null"
      /\ UNCHANGED <<lent, read>>
  BY NothingIsTidy DEF ClientInit, ConfigInv
<1>2. MayAsk(heap, 0, r)
  <2>1. /\ \A f \in {"if_name", "clientkey_password"} \cap r.gives : heap.own[f] # "live"
        /\ "uri" \in r.gives =>
             /\ \A f \in {"username", "password"} \cap r.uri.gives : heap.own[f] # "live"
             /\ r.gives \cap r.uri.gives \cap {"username", "password"} = {}
    BY DEF ClientInit, CarefulRequest, CarefulAbout
  <2> QED
    BY <2>1, RequestsAre DEF MayAsk
<1>3. CASE UNCHANGED <<mode, heap, version, scheme>>
  BY <1>1, <1>3 DEF ConfigInv
<1>4. CASE ~UNCHANGED <<mode, heap, version, scheme>>
  <2> DEFINE conf(bad, missing) ==
               Configured(heap, 0, r, IF bad \in Five THEN "none" ELSE bad, missing)
             more(c, bad) == IF c.version = 5
                               THEN SetIfConfig(c.heap, <<"property", "mqtt5_config">>, Five, bad, {})
                               ELSE c.heap
             done(c, bad) == c.result = "ok" /\ (c.version = 5 => bad \notin Five)
  <2>1. PICK bad \in BadOf(Asked(heap, r) \cup Five), missing \in Missing(r.uri.gives) :
          ClientInitWith(r, bad, missing)
    <3>1. \/ UNCHANGED <<mode, heap, version, scheme>>
          \/ \E bad \in BadOf(Asked(heap, r) \cup Five), missing \in Missing(r.uri.gives) :
               ClientInitWith(r, bad, missing)
      BY DEF ClientInit, ClientInitWith
    <3> QED
      BY <1>4, <3>1
  <2>2. PICK c : c = conf(bad, missing)
    OBVIOUS
  <2>3. /\ heap' = IF done(c, bad) THEN Excused(more(c, bad), more(c, bad).own["config"] # "live")
                   ELSE DestroyClient(more(c, bad), c.version)
        /\ mode' = IF done(c, bad) THEN "stopped" ELSE "none"
        /\ version' = IF done(c, bad) THEN c.version ELSE 0
        /\ bad \notin {"buffer", "in_buffer", "alpn_protos"}
    BY <2>1, <2>2, BadsAre DEF Excused, ClientInitWith
  <2>4. (IF bad \in Five THEN "none" ELSE bad) \in {"none"} \cup Asked(heap, r)
    BY DEF BadOf
  <2>5. \/ /\ c.result \in {"ok", "conflict"} /\ c.version \in {3, 4, 5}
           /\ Configuration(c.heap)
           /\ \A f \in Five \cup Stored : c.heap.own[f] = heap.own[f]
        \/ c.result \notin {"ok", "conflict"} /\ c.version = 0 /\ Emptied(c.heap)
    <3>1. (IF bad \in Five THEN "none" ELSE bad) \notin {"buffer", "in_buffer", "alpn_protos"}
      BY <2>3
    <3>2. PICK b : b = IF bad \in Five THEN "none" ELSE bad
      OBVIOUS
    <3> QED
      BY <1>1, <1>2, <2>2, <2>4, <3>1, <3>2, ConfiguredKeeps
  <2> HIDE DEF conf
  <2>6. CASE c.result \notin {"ok", "conflict"}
    <3>1. Emptied(c.heap) /\ more(c, bad) = c.heap /\ ~done(c, bad)
      BY <2>5, <2>6
    <3>2. heap' = DestroyClient(c.heap, c.version) /\ mode' = "none" /\ version' = 0
      BY <2>3, <3>1
    <3>3. Emptied(heap') /\ \A f \in Blocks : heap'.own[f] = "null"
      BY <3>1, <3>2, DestroyClientEmpties
    <3> QED
      BY <3>2, <3>3 DEF ConfigInv
  <2>7. CASE c.result \in {"ok", "conflict"}
    <3>1. /\ c.version \in {3, 4, 5} /\ Configuration(c.heap)
          /\ \A f \in Five \cup Stored : c.heap.own[f] = "null"
      BY <1>1, <2>5, <2>7, BlocksAre
    <3> DEFINE five == more(c, bad)
    <3>2. Configuration(five) /\ (c.version = 5 /\ bad \notin Five => \A f \in Five : five.own[f] = "live")
      <4>1. CASE c.version # 5
        BY <3>1, <4>1
      <4>2. CASE c.version = 5
        <5> DEFINE order == <<"property", "mqtt5_config">>
        <5>1. {order[i] : i \in DOMAIN order} \subseteq Blocks /\ Five \subseteq Blocks
          BY BlocksAre DEF Five
        <5>2. LET g == SetIfConfig(c.heap, order, Five, bad, {})
              IN  /\ Tidy(g)
                  /\ \A f \in Blocks : g.own[f] = IF f \in Before(order, bad) \cap Five THEN "live"
                                                  ELSE IF f \in {bad} \cap Five THEN "null"
                                                  ELSE c.heap.own[f]
          BY <3>1, <5>1, SetKeeps DEF Configuration
        <5>3. five = SetIfConfig(c.heap, order, Five, bad, {})
          BY <4>2
        <5>4. \A f \in Needed : f \in Blocks /\ f \notin Five
          BY BlocksAre
        <5>5. bad \notin Five => Five \subseteq Before(order, bad)
          <6> SUFFICES ASSUME bad \notin Five PROVE Five \subseteq Before(order, bad)
            OBVIOUS
          <6>1. DOMAIN order = 1..2 /\ order[1] = "property" /\ order[2] = "mqtt5_config"
            OBVIOUS
          <6>2. {1, 2} \subseteq {j \in DOMAIN order : \A k \in 1..j : order[k] # bad}
            BY <6>1 DEF Five
          <6> HIDE DEF order
          <6> QED
            BY <6>1, <6>2 DEF Before, Five
        <5> HIDE DEF order, five
        <5> QED
          BY <3>1, <5>1, <5>2, <5>3, <5>4, <5>5 DEF Configuration
      <4> QED
        BY <4>1, <4>2
    <3>3. c.version # 5 => \A f \in Five \cup Stored : five.own[f] = "null"
      BY <3>1
    <3> HIDE DEF five
    <3>4. Tidy(five) /\ five.own["config"] = "live"
      BY <3>2 DEF Configuration, Needed
    <3>5. CASE done(c, bad)
      <4>1. heap' = Excused(five, five.own["config"] # "live") /\ mode' = "stopped" /\ version' = c.version
        BY <2>3, <3>5 DEF five
      <4>2. heap' = five
        BY <3>4, <4>1, ExcusedIsSame DEF Tidy
      <4>3. Complete(five, c.version)
        BY <3>2, <3>3, <3>5 DEF Complete, Extension
      <4>4. version' # 0 /\ version' \in {0, 3, 4, 5} /\ Complete(heap', version')
        BY <3>1, <4>1, <4>2, <4>3
      <4> QED
        BY <4>1, <4>4 DEF ConfigInv
    <3>6. CASE ~done(c, bad)
      <4>1. heap' = DestroyClient(five, c.version) /\ mode' = "none" /\ version' = 0
        BY <2>3, <3>6 DEF five
      <4>2. Emptied(heap') /\ \A f \in Blocks : heap'.own[f] = "null"
        BY <3>3, <3>4, <4>1, DestroyClientEmpties
      <4> QED
        BY <4>1, <4>2 DEF ConfigInv
    <3> QED
      BY <3>5, <3>6
  <2> QED
    BY <2>6, <2>7
<1> QED
  BY <1>3, <1>4

LEMMA SetConfigKeeps ==
  ASSUME ConfigInv, Careful, Survivable, UNCHANGED scarce, NEW r \in Requests, SetConfig(r)
  PROVE  ConfigInv'
<1>1. /\ mode \in {"stopped", "waiting", "before"} /\ mode' = mode
      /\ mode = "before" => lent = NoLoan
      /\ heap.own["config"] # "null"
      /\ \/ mode = "stopped"
         \/ scarce = {} /\ ("uri" \in r.gives => r.uri.scheme # "bad")
  BY DEF SetConfig, CarefulRequest
<1>2. version \in {3, 4, 5} /\ Complete(heap, version)
  BY <1>1 DEF ConfigInv, Emptied
<1>3. MayAsk(heap, version, r)
  <2>1. /\ \A f \in {"if_name", "clientkey_password"} \cap r.gives : heap.own[f] # "live"
        /\ "uri" \in r.gives =>
             /\ \A f \in {"username", "password"} \cap r.uri.gives : heap.own[f] # "live"
             /\ r.gives \cap r.uri.gives \cap {"username", "password"} = {}
        /\ r.version \in {0, version}
    BY <1>1 DEF SetConfig, CarefulRequest, CarefulAbout
  <2> QED
    BY <2>1, RequestsAre DEF MayAsk
<1>4. PICK bad \in BadOf(Asked(heap, r)), missing \in Missing(r.uri.gives) :
        LET c == Configured(heap, version, r, bad, missing)
        IN  /\ heap' = LeftBehind(c.heap)
            /\ version' = c.version
            /\ \E blocks : lent' = Recalled(blocks)
  BY DEF SetConfig
<1>5. PICK c : c = Configured(heap, version, r, bad, missing)
  OBVIOUS
<1>6. /\ bad \notin {"buffer", "in_buffer", "alpn_protos"}
      /\ mode = "stopped" \/ (bad = "none" /\ missing = {})
      /\ heap' = Excused(c.heap, c.heap.own["config"] # "live" /\ mode # "stopped")
      /\ version' = c.version
      /\ \E blocks : lent' = Recalled(blocks)
  BY <1>1, <1>4, <1>5, BadsAre DEF LeftBehind, Excused, Missing
<1>7. \/ /\ c.result \in {"ok", "conflict"} /\ c.version = version /\ Configuration(c.heap)
         /\ \A f \in Five \cup Stored : c.heap.own[f] = heap.own[f]
      \/ /\ c.result \notin {"ok", "conflict"} /\ c.version = 0 /\ Emptied(c.heap)
         /\ mode = "stopped"
  <2>1. bad \in {"none"} \cup Asked(heap, r)
    BY BadsAre
  <2>2. mode = "stopped" \/ (bad = "none" /\ UriOk(missing) /\ ("uri" \in r.gives => r.uri.scheme # "bad"))
    BY <1>1, <1>6 DEF UriOk
  <2> QED
    BY <1>2, <1>3, <1>5, <1>6, <2>1, <2>2, ConfiguredKeeps
<1>8. mode' = "before" => \A f \in DOMAIN lent' : lent'[f] # "stale"
  <2> SUFFICES ASSUME mode = "before" PROVE \A f \in DOMAIN lent' : lent'[f] # "stale"
    BY <1>1
  <2>1. PICK blocks : lent' = Recalled(blocks)
    BY <1>6
  <2>2. \A f \in DOMAIN lent : lent[f] = "null"
    BY <1>1 DEF NoLoan
  <2> QED
    BY <2>1, <2>2 DEF Recalled
<1>9. CASE c.result \in {"ok", "conflict"}
  <2>1. c.heap.own["config"] = "live" /\ Tidy(c.heap)
    BY <1>7, <1>9 DEF Configuration, Needed
  <2>2. heap' = c.heap /\ version' = version
    BY <1>6, <1>7, <1>9, <2>1, ExcusedIsSame DEF Tidy
  <2>3. Complete(c.heap, version)
    BY <1>2, <1>7, <1>9 DEF Complete, Extension
  <2>4. Complete(heap', version') /\ version' # 0
    BY <1>2, <2>2, <2>3
  <2> QED
    BY <1>1, <1>2, <1>8, <2>2, <2>4 DEF ConfigInv
<1>10. CASE c.result \notin {"ok", "conflict"}
  <2>1. mode = "stopped" /\ version' = 0 /\ Emptied(c.heap)
    BY <1>6, <1>7, <1>10
  <2>2. heap' = c.heap
    BY <1>6, <2>1, ExcusedIsSame DEF Emptied
  <2> QED
    BY <1>1, <2>1, <2>2 DEF ConfigInv
<1> QED
  BY <1>9, <1>10

LEMMA SetUriKeeps ==
  ASSUME ConfigInv, Careful, Survivable, UNCHANGED scarce, NEW u \in Uris, SetUri(u)
  PROVE  ConfigInv'
<1>1. /\ UNCHANGED <<mode, version, lent, read>>
      /\ heap.own["config"] = "live"
      /\ \A f \in {"username", "password"} \cap u.gives : heap.own[f] # "live"
      /\ u.gives \subseteq {"path", "username", "password"}
  BY ConfigAssumption DEF SetUri, CarefulAbout
<1>2. version # 0 /\ Complete(heap, version)
  BY <1>1 DEF ConfigInv, Emptied
<1>3. CASE UNCHANGED heap
  BY <1>1, <1>3 DEF ConfigInv
<1>4. CASE ~UNCHANGED heap
  <2>1. PICK missing : heap' = UriSet(heap, u, missing)
    BY <1>4 DEF SetUri
  <2>2. Tidy(heap') /\ \A f \in Needed \cup Five \cup Stored : heap'.own[f] = heap.own[f]
    BY <1>1, <1>2, <2>1, UriSetKeeps DEF Complete, Configuration
  <2>3. Complete(heap', version)
    BY <1>2, <2>2 DEF Complete, Configuration, Extension
  <2> QED
    BY <1>1, <1>2, <2>3 DEF ConfigInv
<1> QED
  BY <1>3, <1>4

LEMMA SetConnectPropertyKeeps ==
  ASSUME ConfigInv, Careful, Survivable, UNCHANGED scarce, NEW gives \in Properties, SetConnectProperty(gives)
  PROVE  ConfigInv'
<1>1. /\ UNCHANGED <<mode, read>> /\ version = 5 /\ mode # "none"
      /\ gives \subseteq ConnectSet /\ Complete(heap, 5)
  BY ConfigAssumption DEF SetConnectProperty, ConnectSet, ConfigInv
<1> DEFINE new == gives \ (IF heap.own["peer_topic_alias"] = "live" THEN {"peer_topic_alias"} ELSE {})
           g(bad) == SetIfConfig(heap, ConnectStrings, new, bad, {})
           h(bad) == Excused(g(bad), heap.own["mqtt5_config"] # "live")
<1>2. PICK bad \in BadOf(new) :
        /\ bad = "none" \/ mode = "stopped"
        /\ heap' = IF bad = "none" THEN h(bad) ELSE LeftBehind(DestroyConfig(h(bad), version))
        /\ version' = IF bad = "none" THEN version ELSE 0
        /\ bad = "none" => lent' = lent
  BY BadsAre DEF SetConnectProperty, Excused
<1>3. /\ Tidy(g(bad))
      /\ \A f \in Blocks : f \notin ConnectSet => g(bad).own[f] = heap.own[f]
  <2>1. {ConnectStrings[i] : i \in DOMAIN ConnectStrings} \subseteq Blocks
    BY BlocksAre DEF ConnectSet
  <2>2. new \subseteq ConnectSet /\ (bad \in new => bad \in Blocks)
    BY <1>1, BlocksAre
  <2> HIDE DEF new
  <2>3. /\ Tidy(g(bad))
        /\ \A f \in Blocks : g(bad).own[f] = IF f \in Before(ConnectStrings, bad) \cap new THEN "live"
                                             ELSE IF f \in {bad} \cap new THEN "null"
                                             ELSE heap.own[f]
    BY <1>1, <2>1, <2>2, SetKeeps DEF Complete, Configuration
  <2> HIDE DEF g
  <2> QED
    BY <2>2, <2>3
<1>4. \A f \in Needed \cup Five : f \in Blocks /\ f \notin ConnectSet
  BY BlocksAre, StringsAre
<1> HIDE DEF new, g
<1>5. Complete(g(bad), 5)
  BY <1>1, <1>3, <1>4 DEF Complete, Configuration, Extension
<1>6. h(bad) = g(bad)
  <2>1. "mqtt5_config" \in Five /\ heap.own["mqtt5_config"] = "live"
    BY <1>1 DEF Complete, Extension, Five
  <2> QED
    BY <1>3, <2>1, ExcusedIsSame DEF Tidy
<1> HIDE DEF h
<1>7. CASE bad = "none"
  <2>1. heap' = g(bad) /\ version' = 5 /\ lent' = lent
    BY <1>1, <1>2, <1>6, <1>7
  <2>2. Complete(heap', version') /\ version' # 0
    BY <1>5, <2>1
  <2> QED
    BY <1>1, <2>1, <2>2 DEF ConfigInv
<1>8. CASE bad # "none"
  <2>1. /\ mode = "stopped" /\ version' = 0
        /\ heap' = Excused(DestroyConfig(g(bad), 5), DestroyConfig(g(bad), 5).own["config"] # "live" /\ mode # "stopped")
    BY <1>1, <1>2, <1>6, <1>8 DEF LeftBehind, Excused
  <2>2. Emptied(DestroyConfig(g(bad), 5))
    BY <1>5, DestroyEmpties DEF Complete, Configuration, Needed
  <2>3. heap' = DestroyConfig(g(bad), 5)
    BY <2>1, <2>2, ExcusedIsSame DEF Emptied
  <2> QED
    BY <1>1, <2>1, <2>2, <2>3 DEF ConfigInv
<1> QED
  BY <1>7, <1>8

LEMMA SetDisconnectPropertyKeeps ==
  ASSUME ConfigInv, Careful, Survivable, UNCHANGED scarce, SetDisconnectProperty
  PROVE  ConfigInv'
<1>1. /\ UNCHANGED <<mode, version, lent, read>> /\ version = 5 /\ Complete(heap, 5)
  BY DEF SetDisconnectProperty, ConfigInv
<1> DEFINE g(bad) == SetIfConfig(heap, <<"disconnect_user">>, {"disconnect_user"}, bad, {})
<1>2. PICK bad \in BadOf({"disconnect_user", "user_property"}) :
        heap' = [own |-> IF bad = "user_property"
                           THEN [g(bad).own EXCEPT !["disconnect_user"] = "null"] ELSE g(bad).own,
                 lost |-> IF bad = "user_property" THEN g(bad).lost \cup {bad} ELSE g(bad).lost,
                 fault |-> g(bad).fault \/ heap.own["mqtt5_config"] # "live"]
  BY DEF SetDisconnectProperty
<1>a. heap' = [own |-> g(bad).own, lost |-> g(bad).lost,
               fault |-> g(bad).fault \/ heap.own["mqtt5_config"] # "live"]
  BY <1>2, BadsAre
<1>3. /\ Tidy(g(bad))
      /\ \A f \in Blocks : f # "disconnect_user" => g(bad).own[f] = heap.own[f]
  <2> DEFINE order == <<"disconnect_user">>
             some == {"disconnect_user"}
  <2>1. some \subseteq Blocks /\ {order[i] : i \in DOMAIN order} \subseteq Blocks
    BY BlocksAre
  <2>2. g(bad) = SetIfConfig(heap, order, some, bad, {})
    OBVIOUS
  <2> HIDE DEF g, order, some
  <2>3. /\ Tidy(g(bad))
        /\ \A f \in Blocks : g(bad).own[f] = IF f \in Before(order, bad) \cap some THEN "live"
                                             ELSE IF f \in {bad} \cap some THEN "null"
                                             ELSE heap.own[f]
    BY <1>1, <2>1, <2>2, SetKeeps DEF Complete, Configuration
  <2> QED
    BY <2>3 DEF some
<1> HIDE DEF g
<1>4. \A f \in Needed \cup Five : f \in Blocks /\ f # "disconnect_user"
  BY BlocksAre, StringsAre
<1>5. Complete(g(bad), 5)
  BY <1>1, <1>3, <1>4 DEF Complete, Configuration, Extension
<1>6. heap' = g(bad)
  <2>1. "mqtt5_config" \in Five /\ heap.own["mqtt5_config"] = "live"
    BY <1>1 DEF Complete, Extension, Five
  <2>2. g(bad).fault = FALSE
    BY <1>3 DEF Tidy, Heaps
  <2>3. heap' = [own |-> g(bad).own, lost |-> g(bad).lost, fault |-> g(bad).fault]
    BY <1>a, <2>1, <2>2
  <2> QED
    BY <1>3, <2>3 DEF Tidy, Heaps
<1>7. Complete(heap', version') /\ version' # 0
  BY <1>1, <1>5, <1>6
<1> QED
  BY <1>1, <1>7 DEF ConfigInv

LEMMA ConfigInductive ==
  ASSUME Careful, Survivable, ConfigInv, [ConfigNext]_configVars
  PROVE  ConfigInv'
<1>a. UNCHANGED scarce
  BY DEF ConfigNext, configVars
<1>1. ASSUME NEW r \in Requests, ClientInit(r) \/ SetConfig(r) PROVE ConfigInv'
  BY <1>a, <1>1, ClientInitKeeps, SetConfigKeeps
<1>2. ASSUME NEW u \in Uris, SetUri(u) PROVE ConfigInv'
  BY <1>a, <1>2, SetUriKeeps
<1>3. ASSUME NEW gives \in Properties, SetConnectProperty(gives) PROVE ConfigInv'
  BY <1>a, <1>3, SetConnectPropertyKeeps
<1>4. CASE SetDisconnectProperty
  BY <1>a, <1>4, SetDisconnectPropertyKeeps
<1>5. CASE StartClient
  <2>1. /\ mode = "stopped" /\ mode' = "waiting" /\ UNCHANGED <<version, lent, read>>
        /\ heap.own["config"] = "live"
        /\ heap' = Excused(heap, heap.own["config"] # "live")
    BY <1>5 DEF StartClient, Excused
  <2>2. version # 0 /\ Complete(heap, version)
    BY <2>1 DEF ConfigInv, Emptied
  <2>3. heap' = heap
    BY <2>1, <2>2, ExcusedIsSame DEF Complete, Configuration, Tidy
  <2> QED
    BY <1>a, <2>1, <2>2, <2>3 DEF ConfigInv
<1>6. CASE StopClient
  <2>1. mode' = "stopped" /\ UNCHANGED <<version, lent, read>> /\ mode \in {"waiting", "connected"}
    BY <1>6 DEF StopClient
  <2>2. version # 0 /\ Complete(heap, version)
    BY <1>a, <2>1 DEF ConfigInv
  <2>3. CASE UNCHANGED heap
    BY <1>a, <2>1, <2>2, <2>3 DEF ConfigInv
  <2>4. CASE heap' = [heap EXCEPT !.own["disconnect_user"] = "null"]
    <3> DEFINE own == [heap.own EXCEPT !["disconnect_user"] = "null"]
    <3>1. heap \in Heaps({"live", "null"})
      BY <2>2 DEF Complete, Configuration, Tidy
    <3>2. heap' = [own |-> own, lost |-> {}, fault |-> FALSE]
      BY <2>4, <3>1 DEF Heaps
    <3>3. heap.own \in [Blocks -> {"live", "null"}]
      BY <3>1 DEF Heaps
    <3>4. own \in [Blocks -> {"live", "null"}] /\ (\A f \in Blocks : f # "disconnect_user" => own[f] = heap.own[f])
      BY <3>3
    <3>5. own["disconnect_user"] = "null"
      BY <3>3, BlocksAre
    <3> HIDE DEF own
    <3>6. Tidy(heap') /\ heap'.own = own
      BY <3>2, <3>4 DEF Tidy, Heaps
    <3>7. \A f \in Needed \cup Five : f \in Blocks /\ f # "disconnect_user"
      BY BlocksAre, StringsAre
    <3>8. \A f \in Five \cup Stored : f \in Blocks
      BY BlocksAre
    <3>9. Configuration(heap')
      BY <2>2, <3>4, <3>6, <3>7 DEF Complete, Configuration
    <3>10. Extension(heap', version)
      <4>1. CASE version = 5
        BY <2>2, <3>4, <3>6, <3>7, <4>1 DEF Complete, Extension
      <4>2. CASE version # 5
        BY <2>2, <3>4, <3>5, <3>6, <3>8, <4>2 DEF Complete, Extension
      <4> QED
        BY <4>1, <4>2
    <3> QED
      BY <1>a, <2>1, <2>2, <3>9, <3>10 DEF ConfigInv, Complete
  <2> QED
    BY <1>6, <2>3, <2>4 DEF StopClient, SendDisconnect
<1>7. CASE Destroy
  <2>1. /\ heap' = DestroyClient(heap, version) /\ mode' = "none" /\ version' = 0
        /\ mode # "none"
    BY <1>7 DEF Destroy
  <2>2. CASE version = 0
    <3>1. Emptied(heap') /\ \A f \in Blocks : heap'.own[f] = "null"
      BY <1>a, <2>1, <2>2, DestroyClientEmpties DEF ConfigInv
    <3> QED
      BY <1>a, <2>1, <3>1 DEF ConfigInv
  <2>3. CASE version # 0
    <3>1. /\ Tidy(heap) /\ heap.own["config"] = "live"
          /\ version # 5 => \A f \in Five \cup Stored : heap.own[f] = "null"
      BY <2>3 DEF ConfigInv, Complete, Configuration, Extension, Needed
    <3>2. Emptied(heap') /\ \A f \in Blocks : heap'.own[f] = "null"
      BY <2>1, <3>1, DestroyClientEmpties
    <3> QED
      BY <1>a, <2>1, <3>2 DEF ConfigInv
  <2> QED
    BY <2>2, <2>3
<1>8. CASE Attempt
  <2>1. mode = "waiting" /\ UNCHANGED <<heap, version, read>>
    BY <1>8 DEF Attempt
  <2>2. version # 0
    BY <1>a, <2>1 DEF ConfigInv
  <2>3. mode' \in {"before", "stopped"} /\ \A f \in DOMAIN lent' : lent'[f] # "stale"
    <3>1. lent' = NoLoan \/ \E a \in {"current", "null"} :
                              lent' = [certificate |-> "current", alpn_protos |-> a]
      BY <1>8 DEF Attempt, SetSslProperties
    <3> QED
      BY <1>8, <3>1 DEF Attempt, NoLoan
  <2> QED
    BY <1>a, <2>1, <2>2, <2>3 DEF ConfigInv
<1>9. CASE ConnectTransport
  <2>1. /\ mode = "before" /\ mode' \in {"connected", "waiting"} /\ read' = "none"
        /\ UNCHANGED <<version, lent>>
        /\ heap' = Excused(heap, "stale" \in {lent[f] : f \in DOMAIN lent}
                                   \/ (version = 5 /\ heap.own["mqtt5_config"] # "live"))
    BY <1>9 DEF ConnectTransport, Excused
  <2>2. version # 0 /\ Complete(heap, version)
    BY <1>a, <2>1 DEF ConfigInv
  <2>3. "stale" \notin {lent[f] : f \in DOMAIN lent}
    BY <1>a, <2>1 DEF ConfigInv
  <2>4. version = 5 => heap.own["mqtt5_config"] = "live"
    BY <2>2 DEF Complete, Extension, Five
  <2>5. heap' = heap
    <3>1. ~("stale" \in {lent[f] : f \in DOMAIN lent} \/ (version = 5 /\ heap.own["mqtt5_config"] # "live"))
      BY <2>3, <2>4
    <3>2. heap \in Heaps({"live", "null"})
      BY <2>2 DEF Complete, Configuration, Tidy
    <3> QED
      BY <2>1, <3>1, <3>2, ExcusedIsSame
  <2> QED
    BY <1>a, <2>1, <2>2, <2>5 DEF ConfigInv
<1>10. CASE ReceivePart
  <2>1. /\ mode = "connected" /\ UNCHANGED <<heap, version, lent>>
        /\ mode' \in {"connected", "waiting"} /\ (mode' = "connected" => read' # "garbage")
    BY <1>10 DEF ReceivePart
  <2> QED
    BY <1>a, <2>1 DEF ConfigInv
<1>11. CASE UNCHANGED configVars
  BY <1>11 DEF configVars, ConfigInv
<1> QED
  BY <1>a, <1>1, <1>2, <1>3, <1>4, <1>5, <1>6, <1>7, <1>8, <1>9, <1>10, <1>11 DEF ConfigNext, ConfigStep

(* Whatever a careful application configures, whenever, and whichever of the*)
(* allocations whose failure the code survives fail: a client has its whole *)
(* configuration or nothing of it.                                          *)
THEOREM ConfigInvariant ==
  ASSUME Careful, Survivable
  PROVE  ConfigSpec => []ConfigInv
<1>1. ConfigInit => ConfigInv
  BY ConfigInitially
<1>2. ConfigInv /\ [ConfigNext]_configVars => ConfigInv'
  BY ConfigInductive
<1> QED
  BY <1>1, <1>2, PTL DEF ConfigSpec

(* For every configuration and every choice of the survivable allocations   *)
(* that fail, a careful application meets no block that is used or freed    *)
(* when it is gone, no NULL pointer that is followed, and no connection made*)
(* with a certificate that was replaced (mqtt_client.c:652,                 *)
(* mqtt_client.c:1694).                                                     *)
THEOREM NoFaultWhenSurvivable ==
  ASSUME Careful, Survivable
  PROVE  ConfigSpec => []NoFault
<1>1. ConfigInv => NoFault
  BY DEF ConfigInv, NoFault, Complete, Configuration, Tidy, Heaps, Emptied, Needed
<1> QED
  BY <1>1, ConfigInvariant, PTL

(* And every block that it has allocated is freed or can still be, any of   *)
(* the survivable allocations failing (mqtt_client.c:923-947).              *)
THEOREM NothingLostWhenSurvivable ==
  ASSUME Careful, Survivable
  PROVE  ConfigSpec => []NothingLost
<1>1. ConfigInv => NothingLost
  BY DEF ConfigInv, NothingLost, Complete, Configuration, Tidy, Heaps, Emptied
<1> QED
  BY <1>1, ConfigInvariant, PTL
=============================================================================
