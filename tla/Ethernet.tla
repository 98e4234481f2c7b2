------------------------------ MODULE Ethernet ------------------------------
(* The Ethernet initialisation component: ethernet_init_all step by step,   *)
(* any step of which may fail, ethernet_deinit_all, the handler that runs   *)
(* in the event loop's task meanwhile, and what another component does with *)
(* the GPIO interrupt service and the SPI bus it shares.  Three troubles    *)
(* make the code misuse something; `faults` says which it met:              *)
(*   "chip"    an ENC28J60 fails its check before its handle is assigned,   *)
(*   "service" the interrupt service that is uninstalled is another's,      *)
(*   "handler" the event handler asks a driver that is gone.                *)
(* Each can be left out of a behaviour; "bus", the SPI bus of another that  *)
(* is freed, and "overflow", a device too many, cannot.                     *)
EXTENDS Integers, Sequences, FiniteSets

CONSTANTS
  Steps,          \* what the build initialises, in the order of the code
  Troubles,       \* the sets of troubles that may come, one for a behaviour
  CarefulDevices  \* whether the application keeps to what DeinitAll asks of it

Kinds == {"internal", "spi", "enc28j60", "openeth"}

ASSUME StepsAssumption == Steps \in Seq(Kinds \cup {"bus", "handler", "duplex", "plca"})
ASSUME TroublesAssumption == Troubles \subseteq SUBSET {"chip", "service", "handler"}

N == Cardinality({i \in DOMAIN Steps : Steps[i] \in Kinds})
Whole == {"mac", "phy", "driver"}

VARIABLES
  step,      \* the step of ethernet_init_all, 0 when it is not running
  handles,   \* eth_handles: "none", "init" while it is filled, "app"
  cnt,       \* eth_cnt_g
  initialised,  \* the elements of eth_instance_g that are INITIALIZED
  parts,     \* of each device, the parts that exist
  started,   \* devices that are started
  handler,   \* whether eth_event_handler is registered
  isr,       \* who installed the GPIO interrupt service: "none", "us", "other"
  spi,       \* who initialised the SPI bus
  ours,      \* spi_bus_deinit_g
  posted,    \* devices whose ETHERNET_EVENT_CONNECTED is in the event loop
  event,     \* the device the handler is about to ask, 0 for none
  faults,    \* kinds of misuse: of what is not ours, or is not there
  trouble    \* what may come in this behaviour

ethernetVars == <<step, handles, cnt, initialised, parts, started, handler, isr, spi, ours, posted, event, faults, trouble>>
devices == <<cnt, initialised, parts>>
shared == <<isr, spi, ours>>
events == <<posted, event>>

EthernetInit ==
  /\ step = 0 /\ handles = "none" /\ cnt = 0 /\ initialised = {}
  /\ parts = [i \in 1..N |-> {}] /\ started = {} /\ handler = FALSE
  /\ isr = "none" /\ spi = "none" /\ ours = FALSE /\ posted = {} /\ event = 0
  /\ faults = {} /\ trouble \in Troubles

-----------------------------------------------------------------------------
(* What can be left of a device when the function that makes it returns:    *)
(* all of it, or what its error path does not delete of what was made.      *)
Made == SUBSET {"mac", "phy"}
EthInitInternal == {Whole} \cup {made \ Whole : made \in Made}

(* Mutant: a driver that takes no MAC address stays installed.              *)
EthInitSpiKept(kind) == {Whole} \cup {made \ {"mac", "phy"} : made \in Made \cup {Whole}}

(* The driver may also refuse its MAC address.                              *)
EthInitSpi(kind) == {Whole} \cup {made \ Whole : made \in Made \cup {Whole}}

(* The checks of an ENC28J60 go to the error path with what eth_handle      *)
(* happens to hold: unless that is NULL, it is taken for a driver.          *)
WildHandle(kind, left) == kind = "enc28j60" /\ left = {} /\ "chip" \in trouble

EthInitOpeneth == {Whole} \cup {made \ {"mac", "phy"} : made \in Made}

Outcomes(kind) ==
  CASE kind = "internal" -> EthInitInternal
    [] kind = "openeth" -> EthInitOpeneth
    [] kind \in {"spi", "enc28j60"} -> EthInitSpi(kind)

(* ethernet_deinit_all, where `now` is left of each device and `wild` was   *)
(* misused on the way.  A driver in use is not uninstalled; the rest waits  *)
(* until one call has uninstalled as many as were counted.  The interrupt   *)
(* service is then uninstalled whoever installed it.  Events of a driver    *)
(* that is gone find no device.                                             *)
EthernetDeinitAll(now, wild) ==
  LET gone == {i \in initialised : i <= cnt /\ i \notin started}
      done == Cardinality(gone) = cnt
  IN  /\ parts' = [i \in 1..N |-> IF i \in gone THEN {} ELSE now[i]]
      /\ initialised' = initialised \ gone
      /\ posted' = posted \ gone
      /\ IF done
           THEN /\ handler' = FALSE /\ handles' = "none" /\ cnt' = 0
                /\ spi' = IF ours THEN "none" ELSE spi
                /\ ours' = FALSE
                /\ isr' = "none"
                /\ faults' = wild \cup faults
                     \cup {f \in {"bus"} : ours /\ spi = "other"}
                     \cup {f \in {"service"} : isr = "other"}
           ELSE /\ faults' = wild \cup faults
                /\ UNCHANGED <<handler, handles, cnt, spi, ours, isr>>

-----------------------------------------------------------------------------
(* ethernet_init_all.                                                       *)

At(kinds) == step \in DOMAIN Steps /\ Steps[step] \in kinds

(* A step fails: everything is undone, and an error is returned.            *)
Fail(now, wild) ==
  /\ EthernetDeinitAll(now, wild)
  /\ step' = 0
  /\ UNCHANGED <<started, event>>

(* The application begins, or there is no memory for the handles.           *)
InitAll ==
  /\ step = 0 /\ handles = "none"
  /\ \/ step' = 1 /\ handles' = "init"
     \/ UNCHANGED <<step, handles>>
  /\ UNCHANGED <<devices, started, handler, shared, events, faults>>

(* The next device; one that could not be made leaves no handle.            *)
Device ==
  /\ At(Kinds)
  /\ \E left \in Outcomes(Steps[step]) :
       LET now == [i \in 1..N |-> IF i = cnt + 1 THEN left ELSE parts[i]]
       IN  IF left = Whole
             THEN /\ parts' = now /\ initialised' = initialised \cup {cnt + 1}
                  /\ cnt' = cnt + 1 /\ step' = step + 1
                  /\ faults' = faults \cup {f \in {"overflow"} : cnt = N}
                  /\ UNCHANGED <<handles, started, handler, shared, events>>
             ELSE \E wild \in SUBSET {"chip"} :
                    (wild # {} => WildHandle(Steps[step], left)) /\ Fail(now, wild)

(* spi_bus_init: what another component has installed already is used.      *)
SpiBusInit ==
  /\ At({"bus"})
  /\ \/ /\ isr' = IF isr = "none" THEN "us" ELSE isr
        /\ spi' = IF spi = "none" THEN "us" ELSE spi
        /\ ours' = (ours \/ spi = "none")
        /\ step' = step + 1
        /\ UNCHANGED <<handles, devices, started, handler, events, faults>>
     \/ Fail(parts, {})

RegisterHandler ==
  /\ At({"handler"})
  /\ \/ handler' = TRUE /\ step' = step + 1
        /\ UNCHANGED <<handles, devices, started, shared, events, faults>>
     \/ Fail(parts, {})

(* The duplex mode of an ENC28J60, PLCA: requests to the drivers.           *)
Configure ==
  /\ At({"duplex", "plca"})
  /\ \/ step' = step + 1
        /\ UNCHANGED <<handles, devices, started, handler, shared, events, faults>>
     \/ Fail(parts, {})

Return ==
  /\ step = Len(Steps) + 1
  /\ step' = 0 /\ handles' = "app"
  /\ UNCHANGED <<devices, started, handler, shared, events, faults>>

-----------------------------------------------------------------------------
(* The application; a careful one starts all devices before deinit_all, or  *)
(* none.                                                                    *)

DeinitAll ==
  /\ step = 0 /\ handles = "app"
  /\ CarefulDevices => started \in {{}, 1..N}
  /\ "handler" \notin trouble => event = 0
  /\ EthernetDeinitAll(parts, {})
  /\ UNCHANGED <<step, started, event>>

Switch(i) ==
  /\ handles = "app" /\ parts[i] = Whole
  /\ started' = (started \ {i}) \cup ({i} \ started)
  /\ UNCHANGED <<step, handles, devices, handler, shared, events, faults>>

(* The link of a device that is started comes up.                           *)
LinkUp(i) ==
  /\ i \in started /\ i \notin posted
  /\ posted' = posted \cup {i}
  /\ UNCHANGED <<step, handles, devices, started, handler, shared, event, faults>>

(* eth_event_handler: an event whose device, stopped since or not, is found *)
(* by ethernet_init_get_dev_info ...                                        *)
GetDevInfo(i) == i <= cnt /\ i \in initialised
Event(i) ==
  /\ handler /\ event = 0
  /\ i \in posted /\ GetDevInfo(i)
  /\ event' = i /\ posted' = posted \ {i}
  /\ UNCHANGED <<step, handles, devices, started, handler, shared, faults>>

(* ... whose driver is then asked for its MAC address.                      *)
AskDriver ==
  /\ event # 0
  /\ event' = 0
  /\ faults' = faults \cup {f \in {"handler"} : parts[event] # Whole}
  /\ UNCHANGED <<step, handles, devices, started, handler, shared, posted>>

(* Another component installs what it needs, or gives it back.              *)
Other ==
  /\ \/ spi = "none" /\ spi' = "other" /\ UNCHANGED isr
     \/ spi = "other" /\ spi' = "none" /\ UNCHANGED isr
     \/ "service" \in trouble /\ isr = "none" /\ isr' = "other" /\ UNCHANGED spi
  /\ UNCHANGED <<step, handles, devices, started, handler, ours, events, faults>>

EthernetStep ==
  \/ InitAll \/ Device \/ SpiBusInit \/ RegisterHandler \/ Configure \/ Return
  \/ DeinitAll
  \/ \E i \in 1..N : Switch(i) \/ LinkUp(i) \/ Event(i)
  \/ AskDriver \/ Other

EthernetNext == EthernetStep /\ UNCHANGED trouble

EthernetSpec == EthernetInit /\ [][EthernetNext]_ethernetVars

-----------------------------------------------------------------------------
(* When a step fails, and after deinit_all, nothing is left behind; when    *)
(* init_all gives out the handles, every device is there; no SPI bus of     *)
(* another component is freed; and a driver, the interrupt service or a     *)
(* handle is misused only in the troubles that may come (ethernet_init.c:772,*)
(* ethernet_init.c:811).                                                    *)
Undone ==
  /\ faults \subseteq trouble
  /\ step = 0 /\ handles = "none" =>
       /\ cnt = 0 /\ initialised = {} /\ \A i \in 1..N : parts[i] = {}
       /\ ~handler /\ ~ours /\ spi # "us" /\ isr # "us"
  /\ handles = "app" => cnt = N /\ \A i \in 1..N : parts[i] = Whole
=============================================================================
