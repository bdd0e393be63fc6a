------------------------------ MODULE Bindings ------------------------------
(***************************************************************************)
(* bindings/modulegen__gcc_*.py: how the description of the Python module  *)
(* is put together, one pybindgen call after the other.  A name that is    *)
(* looked up before it is registered raises KeyError and ends the build; a *)
(* method with a type that is not known is dropped with a warning, because *)
(* the ErrorHandler of these files returns True.                           *)
(***************************************************************************)
EXTENDS BindingsData, TLC

VARIABLES
  build,      \* which of the two files runs
  at,         \* its next call
  known,      \* the types pybindgen knows
  spaces,     \* the nested modules
  ancestors,  \* pairs of a class and a base of it
  api, lost,  \* the methods that are in, and those dropped with a warning
  outcome     \* "running", "failed" or "generated"
bindVars == <<build, at, known, spaces, ancestors, api, lost, outcome>>

(* register_types, register_methods and register_functions of a file       *)
TypeCalls ==
  TypesCore \o TypesObjects \o TypesDiscs \o Containers \o Namespaces
TypeCalls32 ==
  TypesCore32 \o TypesObjects32 \o TypesDiscs32 \o Containers32 \o Namespaces32
ClassCalls(classes) ==
  [k \in DOMAIN classes |-> Entry("methods", classes[k], {classes[k]})]
SpaceCalls(names) == [k \in DOMAIN names |-> Entry("submodule", names[k], {})]

MethodsOf(c) ==
  CASE c = "QueueDiscContainer" -> QueueDiscContainerMethods
    [] c = "QueueDiscFactory" -> QueueDiscFactoryMethods
    [] c = "TrafficControlHelper" -> TrafficControlHelperMethods
    [] c = "PacketFilter" -> PacketFilterMethods
    [] c = "QueueDisc" -> QueueDiscMethods
    [] c = "QueueDiscClass" -> QueueDiscClassMethods
    [] c = "RedQueueDisc" -> RedQueueDiscMethods
    [] c = "RedQueueDisc::Stats" -> RedQueueDiscStatsMethods
    [] c = "TrafficControlLayer" -> TrafficControlLayerMethods
    [] c = "CoDelQueueDisc" -> CoDelQueueDiscMethods
    [] c = "FqCoDelFlow" -> FqCoDelFlowMethods
    [] c = "FqCoDelQueueDisc" -> FqCoDelQueueDiscMethods
    [] c = "PfifoFastQueueDisc" -> PfifoFastQueueDiscMethods
    [] c = "PieQueueDisc" -> PieQueueDiscMethods
    [] c = "PieQueueDisc::Stats" -> PieQueueDiscStatsMethods
    [] c = "QueueDiscItem" -> QueueDiscItemMethods
    [] c = "Object" -> ObjectMethods
    [] c = "ObjectBase" -> ObjectBaseMethods
    [] c = "QueueItem" -> QueueItemMethods
    [] OTHER -> {}
MethodsOf32(c) ==
  CASE c = "QueueDiscContainer" -> QueueDiscContainerMethods32
    [] c = "QueueDiscFactory" -> QueueDiscFactoryMethods32
    [] c = "TrafficControlHelper" -> TrafficControlHelperMethods32
    [] c = "PacketFilter" -> PacketFilterMethods32
    [] c = "QueueDisc" -> QueueDiscMethods32
    [] c = "QueueDiscClass" -> QueueDiscClassMethods32
    [] c = "RedQueueDisc" -> RedQueueDiscMethods32
    [] c = "RedQueueDisc::Stats" -> RedQueueDiscStatsMethods32
    [] c = "TrafficControlLayer" -> TrafficControlLayerMethods32
    [] c = "CoDelQueueDisc" -> CoDelQueueDiscMethods32
    [] c = "FqCoDelFlow" -> FqCoDelFlowMethods32
    [] c = "FqCoDelQueueDisc" -> FqCoDelQueueDiscMethods32
    [] c = "PfifoFastQueueDisc" -> PfifoFastQueueDiscMethods32
    [] c = "PieQueueDisc" -> PieQueueDiscMethods32
    [] c = "PieQueueDisc::Stats" -> PieQueueDiscStatsMethods32
    [] c = "QueueDiscItem" -> QueueDiscItemMethods32
    [] c = "Object" -> ObjectMethods32
    [] c = "ObjectBase" -> ObjectBaseMethods32
    [] c = "QueueItem" -> QueueItemMethods32
    [] OTHER -> {}

MethodsFirst ==   \* mutant
  ClassCalls(ClassesCore \o ClassesRest) \o TypeCalls \o SpaceCalls(Submodules)

(* main()                                                                  *)
Main == TypeCalls \o ClassCalls(ClassesCore \o ClassesRest) \o SpaceCalls(Submodules)
Main32 ==
  TypeCalls32 \o ClassCalls(ClassesCore32 \o ClassesRest32) \o SpaceCalls(Submodules32)

Calls64or32(b) == IF b = "LP64" THEN Main ELSE Main32
Methods(b, c) == IF b = "LP64" THEN MethodsOf(c) ELSE MethodsOf32(c)

----------------------------------------------------------------------------
Init ==
  /\ build \in {"LP64", "ILP32"}
  /\ at = 1 /\ known = CallbackClasses /\ spaces = {} /\ ancestors = {}
  /\ api = {} /\ lost = {} /\ outcome = "running"

(* cls.add_method and the like: ErrorHandler.handle_error drops a method   *)
(* that has a type nobody has registered                                   *)
AddMethods(c) ==
  LET methods == {[class |-> c] @@ m : m \in Methods(build, c)}
      kept == {m \in methods : m.uses \subseteq known}
  IN api' = api \cup kept /\ lost' = lost \cup (methods \ kept)

Register ==
  /\ outcome = "running"
  /\ LET calls == Calls64or32(build)
         e == calls[at]
         found == e.needs \subseteq known /\ (e.kind = "submodule" => e.adds \in spaces)
     IN /\ outcome' = IF ~found THEN "failed"
                      ELSE IF at = Len(calls) THEN "generated" ELSE "running"
        /\ at' = at + 1
        /\ known' = IF found /\ e.kind \in {"type", "subclass"}
                    THEN known \cup {e.adds} ELSE known
        /\ ancestors' =
             IF found /\ e.kind = "subclass"
             THEN ancestors \cup {<<e.adds, b>> : b \in e.needs}
                            \cup {<<e.adds, p[2]>> : p \in {q \in ancestors : q[1] \in e.needs}}
             ELSE ancestors
        /\ spaces' = IF e.kind = "namespace" THEN spaces \cup {e.adds} ELSE spaces
        /\ IF found /\ e.kind = "methods" THEN AddMethods(e.adds)
           ELSE UNCHANGED <<api, lost>>
  /\ UNCHANGED build

----------------------------------------------------------------------------
(* Whatever is looked up has been registered before: no KeyError stops the *)
(* generation, in an order of 356 calls that is nowhere checked.           *)
EveryLookupFinds == outcome # "failed"

(* No method falls victim to the error handler, which turns a type that is *)
(* not there into a warning, except for the iterators over a container;    *)
(* and from Python, too, every queue discipline can be created: each pure  *)
(* virtual method of its bases has an override that made it into the API.  *)
Overridden(c, m) ==
  \E o \in api : /\ o.name = m.name /\ ~o.pure
                 /\ o.class = c \/ <<c, o.class>> \in ancestors
ApiComplete ==
  outcome = "generated" =>
    /\ {<<m.class, m.name>> : m \in lost} =
         {"QueueDiscContainer"} \X {"Begin", "End"}
    /\ \A p \in ancestors : p[2] = "QueueDisc" =>
         /\ \E m \in api : m.class = p[1] /\ m.name = "new" /\ m.uses = {}
         /\ \A m \in api : (m.pure /\ <<p[1], m.class>> \in ancestors) => Overridden(p[1], m)
=============================================================================
