---------------------------- MODULE BindingsData ----------------------------
(***************************************************************************)
(* What bindings/modulegen__gcc_LP64.py registers with pybindgen to build  *)
(* the Python module ns.traffic_control, in its order: the types, the      *)
(* classes that get methods, and the methods of the classes of this ns-3   *)
(* module and of their bases.  modulegen__gcc_ILP32.py is a second copy    *)
(* for machines with 32-bit pointers.                                      *)
(***************************************************************************)
EXTENDS Sequences, Naturals

(* One entry for each call: the name it adds and the names it looks up.    *)
(* Top: module.add_class, add_enum, add_container or add_type_alias; In:   *)
(* with outer_class; Sub: with parent; Converts: implicitly_converts_to;   *)
(* Namespace: add_cpp_namespace.                                           *)
Entry(kind, adds, needs) == [kind |-> kind, adds |-> adds, needs |-> needs]
Entries(kind, names, needs) == [k \in DOMAIN names |-> Entry(kind, names[k], needs)]
Top(names) == Entries("type", names, {})
In(outer, names) == Entries("type", names, {outer})
Sub(parent, names) == Entries("subclass", names, {parent})
Converts(from, to) == [k \in DOMAIN to |-> Entry("conversion", from, {from, to[k]})]
Namespace(name) == <<Entry("namespace", name, {})>>

(* Methods and attributes: their names and the types they use.  Those that *)
(* use built-in types alone cannot get lost, and are left out but for the  *)
(* constructors and what overrides a pure virtual method of a base class.  *)
Calls(names, uses) == [name : names, uses : {uses}, pure : {FALSE}]
Pure(names, uses) == [name : names, uses : {uses}, pure : {TRUE}]

----------------------------------------------------------------------------
(* register_types and what it calls                                        *)

TypesCore ==
  Top(<<"Address">>) \o In("Address", <<"Address::MaxSize_e">>)
    \o Top(<<"AttributeConstructionList">>)
    \o In("AttributeConstructionList", <<"AttributeConstructionList::Item">>)
    \o Top(<<"Buffer">>) \o In("Buffer", <<"Buffer::Iterator">>)
    \o Top(<<"ByteTagIterator">>)
    \o In("ByteTagIterator", <<"ByteTagIterator::Item">>)
    \o Top(<<"ByteTagList">>)
    \o In("ByteTagList", <<"ByteTagList::Iterator">>)
    \o In("ByteTagList::Iterator", <<"ByteTagList::Iterator::Item">>)
    \o Top(<<"CallbackBase", "DataRate", "EventId", "Hasher",
       "IntToType<0>">>) \o In("IntToType<0>", <<"IntToType<0>::v_e">>)
    \o Top(<<"IntToType<1>">>) \o In("IntToType<1>", <<"IntToType<1>::v_e">>)
    \o Top(<<"IntToType<2>">>) \o In("IntToType<2>", <<"IntToType<2>::v_e">>)
    \o Top(<<"IntToType<3>">>) \o In("IntToType<3>", <<"IntToType<3>::v_e">>)
    \o Top(<<"IntToType<4>">>) \o In("IntToType<4>", <<"IntToType<4>::v_e">>)
    \o Top(<<"IntToType<5>">>) \o In("IntToType<5>", <<"IntToType<5>::v_e">>)
    \o Top(<<"IntToType<6>">>) \o In("IntToType<6>", <<"IntToType<6>::v_e">>)
    \o Top(<<"Ipv4Address">>) \o Converts("Ipv4Address", <<"Address">>)
    \o Top(<<"Ipv4Mask", "Ipv6Address">>)
    \o Converts("Ipv6Address", <<"Address">>)
    \o Top(<<"Ipv6Prefix", "Mac48Address">>)
    \o Converts("Mac48Address", <<"Address">>)
    \o Top(<<"NetDeviceContainer", "ObjectBase", "ObjectDeleter",
       "ObjectFactory", "PacketMetadata">>)
    \o In("PacketMetadata", <<"PacketMetadata::Item">>)
    \o In("PacketMetadata::Item", <<"PacketMetadata::Item::(unnamed)">>)
    \o In("PacketMetadata", <<"PacketMetadata::ItemIterator">>)
    \o Top(<<"PacketTagIterator">>)
    \o In("PacketTagIterator", <<"PacketTagIterator::Item">>)
    \o Top(<<"PacketTagList">>)
    \o In("PacketTagList", <<"PacketTagList::TagData">>)
    \o In("PacketTagList::TagData", <<"PacketTagList::TagData::TagData_e">>)
    \o Top(<<"QueueDiscContainer", "QueueDiscFactory">>)
    \o Sub("ObjectBase", <<"SimpleRefCount<Object>">>) \o Top(<<"Simulator">>)
    \o In("Simulator", <<"Simulator::(unnamed)">>)
    \o Sub("ObjectBase", <<"Tag">>)
    \o Top(<<"TagBuffer", "TimeWithUnit", "Timer">>)
    \o In("Timer", <<"Timer::DestroyPolicy", "Timer::State">>)
    \o Top(<<"TimerImpl", "TracedValue<bool>", "TracedValue<uint>">>)

TypesObjects ==
  Top(<<"TrafficControlHelper", "TypeId">>)
    \o In("TypeId", <<"TypeId::AttributeFlag", "TypeId::SupportLevel",
       "TypeId::AttributeInformation", "TypeId::TraceSourceInformation">>)
    \o Top(<<"empty", "int64x64_t">>)
    \o In("int64x64_t", <<"int64x64_t::impl_type">>)
    \o Sub("ObjectBase", <<"Chunk">>) \o Sub("Chunk", <<"Header">>)
    \o Sub("SimpleRefCount<Object>", <<"Object">>)
    \o In("Object", <<"Object::AggregateIterator">>)
    \o Sub("Object", <<"PacketFilter", "Queue">>)
    \o In("Queue", <<"Queue::QueueMode">>) \o Sub("Object", <<"QueueDisc">>)
    \o In("QueueDisc", <<"QueueDisc::WakeMode">>)
    \o Sub("Object", <<"QueueDiscClass", "RandomVariableStream">>)
    \o Sub("QueueDisc", <<"RedQueueDisc">>)
    \o In("RedQueueDisc", <<"RedQueueDisc::(unnamed)",
       "RedQueueDisc::Stats">>)
    \o Sub("RandomVariableStream", <<"SequentialRandomVariable">>)
    \o Sub("empty", <<"SimpleRefCount<AttributeAccessor>",
       "SimpleRefCount<AttributeChecker>", "SimpleRefCount<AttributeValue>",
       "SimpleRefCount<CallbackImplBase>", "SimpleRefCount<EventImpl>",
       "SimpleRefCount<Hash::Implementation>",
       "SimpleRefCount<NetDeviceQueue>", "SimpleRefCount<NixVector>",
       "SimpleRefCount<Packet>", "SimpleRefCount<QueueItem>",
       "SimpleRefCount<TraceSourceAccessor>">>) \o Top(<<"Time">>)
    \o In("Time", <<"Time::Unit">>) \o Converts("Time", <<"int64x64_t">>)
    \o Sub("SimpleRefCount<TraceSourceAccessor>", <<"TraceSourceAccessor">>)
    \o Top(<<"TracedValue<Time>">>)
    \o Converts("TracedValue<Time>", <<"Time">>)
    \o Sub("Object", <<"TrafficControlLayer">>) \o Sub("Chunk", <<"Trailer">>)
    \o Sub("RandomVariableStream", <<"TriangularRandomVariable",
       "UniformRandomVariable", "WeibullRandomVariable", "ZetaRandomVariable",
       "ZipfRandomVariable">>)
    \o Sub("SimpleRefCount<AttributeAccessor>", <<"AttributeAccessor">>)
    \o Sub("SimpleRefCount<AttributeChecker>", <<"AttributeChecker">>)
    \o Sub("SimpleRefCount<AttributeValue>", <<"AttributeValue">>)
    \o Sub("AttributeChecker", <<"BooleanChecker">>)
    \o Sub("AttributeValue", <<"BooleanValue">>)
    \o Sub("AttributeChecker", <<"CallbackChecker">>)
    \o Sub("SimpleRefCount<CallbackImplBase>", <<"CallbackImplBase">>)
    \o Sub("AttributeValue", <<"CallbackValue">>)
    \o Sub("QueueDisc", <<"CoDelQueueDisc">>)
    \o Sub("RandomVariableStream", <<"ConstantRandomVariable">>)
    \o Sub("AttributeChecker", <<"DataRateChecker">>)
    \o Sub("AttributeValue", <<"DataRateValue">>)
    \o Sub("RandomVariableStream", <<"DeterministicRandomVariable">>)
    \o Sub("AttributeValue", <<"DoubleValue">>)
    \o Sub("RandomVariableStream", <<"EmpiricalRandomVariable">>)
    \o Sub("AttributeAccessor", <<"EmptyAttributeAccessor">>)
    \o Sub("AttributeChecker", <<"EmptyAttributeChecker">>)

TypesDiscs ==
  Sub("AttributeValue", <<"EmptyAttributeValue">>)
    \o Sub("AttributeChecker", <<"EnumChecker">>)
    \o Sub("AttributeValue", <<"EnumValue">>)
    \o Sub("RandomVariableStream", <<"ErlangRandomVariable">>)
    \o Sub("SimpleRefCount<EventImpl>", <<"EventImpl">>)
    \o Sub("RandomVariableStream", <<"ExponentialRandomVariable">>)
    \o Sub("QueueDiscClass", <<"FqCoDelFlow">>)
    \o In("FqCoDelFlow", <<"FqCoDelFlow::FlowStatus">>)
    \o Sub("QueueDisc", <<"FqCoDelQueueDisc">>)
    \o Sub("RandomVariableStream", <<"GammaRandomVariable">>)
    \o Sub("AttributeValue", <<"IntegerValue">>)
    \o Sub("AttributeChecker", <<"Ipv4AddressChecker">>)
    \o Sub("AttributeValue", <<"Ipv4AddressValue">>)
    \o Sub("AttributeChecker", <<"Ipv4MaskChecker">>)
    \o Sub("AttributeValue", <<"Ipv4MaskValue">>)
    \o Sub("AttributeChecker", <<"Ipv6AddressChecker">>)
    \o Sub("AttributeValue", <<"Ipv6AddressValue">>)
    \o Sub("AttributeChecker", <<"Ipv6PrefixChecker">>)
    \o Sub("AttributeValue", <<"Ipv6PrefixValue">>)
    \o Sub("RandomVariableStream", <<"LogNormalRandomVariable">>)
    \o Sub("AttributeChecker", <<"Mac48AddressChecker">>)
    \o Sub("AttributeValue", <<"Mac48AddressValue">>)
    \o Sub("Object", <<"NetDevice">>)
    \o In("NetDevice", <<"NetDevice::PacketType">>)
    \o Sub("SimpleRefCount<NetDeviceQueue>", <<"NetDeviceQueue">>)
    \o Sub("Object", <<"NetDeviceQueueInterface">>)
    \o Sub("SimpleRefCount<NixVector>", <<"NixVector">>)
    \o Sub("Object", <<"Node">>)
    \o Sub("RandomVariableStream", <<"NormalRandomVariable">>)
    \o Sub("AttributeChecker", <<"ObjectFactoryChecker">>)
    \o Sub("AttributeValue", <<"ObjectFactoryValue">>)
    \o Sub("SimpleRefCount<Packet>", <<"Packet">>)
    \o Sub("RandomVariableStream", <<"ParetoRandomVariable">>)
    \o Sub("QueueDisc", <<"PfifoFastQueueDisc", "PieQueueDisc">>)
    \o In("PieQueueDisc", <<"PieQueueDisc::BurstStateT",
       "PieQueueDisc::Stats">>)
    \o Sub("SimpleRefCount<QueueItem>", <<"QueueItem">>)
    \o In("QueueItem", <<"QueueItem::Uint8Values">>)
    \o Sub("AttributeChecker", <<"StringChecker">>)
    \o Sub("AttributeValue", <<"StringValue", "TimeValue">>)
    \o Sub("AttributeChecker", <<"TypeIdChecker">>)
    \o Sub("AttributeValue", <<"TypeIdValue", "UintegerValue">>)
    \o Sub("AttributeChecker", <<"AddressChecker">>)
    \o Sub("AttributeValue", <<"AddressValue">>)
    \o Sub("QueueItem", <<"QueueDiscItem">>)

NoVectors == Top(<<"vector<QueueDisc>">>)   \* mutant: one is missing
Containers == Top(<<"vector<QueueDisc>", "vector<uint16>">>)

HashFunctionTypes ==
  Sub("Hash::Implementation", <<"Hash::Function::Fnv1a", "Hash::Function::Hash32", "Hash::Function::Hash64", "Hash::Function::Murmur3">>)

HashTypes ==
  Sub("SimpleRefCount<Hash::Implementation>", <<"Hash::Implementation">>)
    \o Namespace("Hash::Function") \o HashFunctionTypes

TracedValueAliases ==
  Top(<<"TracedValueCallback::Bool", "TracedValueCallback::Double",
    "TracedValueCallback::Uint8", "TracedValueCallback::Uint32",
    "TracedValueCallback::Time", "TracedValueCallback::Int16",
    "TracedValueCallback::Int32", "TracedValueCallback::Int8",
    "TracedValueCallback::Void", "TracedValueCallback::Uint16">>)

Namespaces ==
  Namespace("FatalImpl") \o Namespace("Hash") \o HashTypes
    \o Namespace("TracedValueCallback") \o TracedValueAliases
    \o Namespace("internal")

----------------------------------------------------------------------------
(* register_methods looks up these classes, in this order                  *)

ClassesCore ==
  <<"Address", "AttributeConstructionList", "AttributeConstructionList::Item",
    "Buffer", "Buffer::Iterator", "ByteTagIterator", "ByteTagIterator::Item",
    "ByteTagList", "ByteTagList::Iterator", "ByteTagList::Iterator::Item",
    "CallbackBase", "DataRate", "EventId", "Hasher", "IntToType<0>",
    "IntToType<1>", "IntToType<2>", "IntToType<3>", "IntToType<4>",
    "IntToType<5>", "IntToType<6>", "Ipv4Address", "Ipv4Mask", "Ipv6Address",
    "Ipv6Prefix", "Mac48Address", "NetDeviceContainer", "ObjectBase",
    "ObjectDeleter", "ObjectFactory", "PacketMetadata", "PacketMetadata::Item",
    "PacketMetadata::ItemIterator", "PacketTagIterator",
    "PacketTagIterator::Item", "PacketTagList", "PacketTagList::TagData",
    "QueueDiscContainer", "QueueDiscFactory", "SimpleRefCount<Object>",
    "Simulator", "Tag", "TagBuffer", "TimeWithUnit", "Timer", "TimerImpl",
    "TracedValue<bool>", "TracedValue<uint>", "TrafficControlHelper", "TypeId",
    "TypeId::AttributeInformation", "TypeId::TraceSourceInformation", "empty",
    "int64x64_t", "Chunk", "Header", "Object", "Object::AggregateIterator",
    "PacketFilter", "Queue", "QueueDisc", "QueueDiscClass",
    "RandomVariableStream", "RedQueueDisc", "RedQueueDisc::Stats",
    "SequentialRandomVariable", "SimpleRefCount<AttributeAccessor>",
    "SimpleRefCount<AttributeChecker>", "SimpleRefCount<AttributeValue>",
    "SimpleRefCount<CallbackImplBase>", "SimpleRefCount<EventImpl>",
    "SimpleRefCount<Hash::Implementation>", "SimpleRefCount<NetDeviceQueue>",
    "SimpleRefCount<NixVector>", "SimpleRefCount<Packet>",
    "SimpleRefCount<QueueItem>", "SimpleRefCount<TraceSourceAccessor>">>

ClassesRest ==
  <<"Time", "TraceSourceAccessor", "TracedValue<Time>", "TrafficControlLayer",
    "Trailer", "TriangularRandomVariable", "UniformRandomVariable",
    "WeibullRandomVariable", "ZetaRandomVariable", "ZipfRandomVariable",
    "AttributeAccessor", "AttributeChecker", "AttributeValue",
    "BooleanChecker", "BooleanValue", "CallbackChecker", "CallbackImplBase",
    "CallbackValue", "CoDelQueueDisc", "ConstantRandomVariable",
    "DataRateChecker", "DataRateValue", "DeterministicRandomVariable",
    "DoubleValue", "EmpiricalRandomVariable", "EmptyAttributeAccessor",
    "EmptyAttributeChecker", "EmptyAttributeValue", "EnumChecker", "EnumValue",
    "ErlangRandomVariable", "EventImpl", "ExponentialRandomVariable",
    "FqCoDelFlow", "FqCoDelQueueDisc", "GammaRandomVariable", "IntegerValue",
    "Ipv4AddressChecker", "Ipv4AddressValue", "Ipv4MaskChecker",
    "Ipv4MaskValue", "Ipv6AddressChecker", "Ipv6AddressValue",
    "Ipv6PrefixChecker", "Ipv6PrefixValue", "LogNormalRandomVariable",
    "Mac48AddressChecker", "Mac48AddressValue", "NetDevice", "NetDeviceQueue",
    "NetDeviceQueueInterface", "NixVector", "Node", "NormalRandomVariable",
    "ObjectFactoryChecker", "ObjectFactoryValue", "Packet",
    "ParetoRandomVariable", "PfifoFastQueueDisc", "PieQueueDisc",
    "PieQueueDisc::Stats", "QueueItem", "StringChecker", "StringValue",
    "TimeValue", "TypeIdChecker", "TypeIdValue", "UintegerValue",
    "AddressChecker", "AddressValue", "QueueDiscItem", "Hash::Implementation",
    "Hash::Function::Fnv1a", "Hash::Function::Hash32",
    "Hash::Function::Hash64", "Hash::Function::Murmur3">>

----------------------------------------------------------------------------
(* register_Ns3..._methods                                                 *)

QueueDiscContainerMethods ==
  Calls({"new"}, {}) \cup Calls({"Add", "Get", "new"}, {"QueueDisc"})
    \cup Calls({"Add", "new"}, {"QueueDiscContainer"})
    \cup Calls({"Begin", "End"}, {"iterator<QueueDisc>"})

QueueDiscFactoryMethods ==
  Calls({"AddInternalQueue", "AddPacketFilter", "AddQueueDiscClass", "new"},
       {"ObjectFactory"})
    \cup Calls({"new"}, {"QueueDiscFactory"})
    \cup Calls({"CreateQueueDisc"}, {"QueueDisc", "vector<QueueDisc>"})

TrafficControlHelperMethods ==
  Calls({"new"}, {})
    \cup Calls({"AddChildQueueDisc", "AddInternalQueues", "AddPacketFilter",
       "SetQueueLimits", "SetRootQueueDisc"}, {"AttributeValue"})
    \cup Calls({"Uninstall"}, {"NetDevice"})
    \cup Calls({"Uninstall"}, {"NetDeviceContainer"})
    \cup Calls({"Default", "new"}, {"TrafficControlHelper"})
    \cup Calls({"AddChildQueueDiscs", "AddQueueDiscClasses"},
       {"AttributeValue", "vector<uint16>"})
    \cup Calls({"Install"}, {"NetDevice", "QueueDiscContainer"})
    \cup Calls({"Install"}, {"NetDeviceContainer", "QueueDiscContainer"})

PacketFilterMethods ==
  Calls({"new"}, {}) \cup Calls({"new"}, {"PacketFilter"})
    \cup Calls({"Classify"}, {"QueueDiscItem"})
    \cup Calls({"GetTypeId"}, {"TypeId"})
    \cup Pure({"CheckProtocol", "DoClassify"}, {"QueueDiscItem"})

QueueDiscMethods ==
  Calls({"new"}, {})
    \cup Calls({"SetParentDropCallback"}, {"Callback<void,QueueItem>"})
    \cup Calls({"GetNetDevice", "SetNetDevice"}, {"NetDevice"})
    \cup Calls({"AddPacketFilter", "GetPacketFilter"}, {"PacketFilter"})
    \cup Calls({"AddInternalQueue", "GetInternalQueue"}, {"Queue"})
    \cup Calls({"new"}, {"QueueDisc"})
    \cup Calls({"GetWakeMode"}, {"QueueDisc::WakeMode"})
    \cup Calls({"AddQueueDiscClass", "GetQueueDiscClass"}, {"QueueDiscClass"})
    \cup Calls({"Classify", "Dequeue", "Enqueue", "Peek"}, {"QueueDiscItem"})
    \cup Calls({"Drop"}, {"QueueItem"}) \cup Calls({"GetTypeId"}, {"TypeId"})
    \cup Pure({"CheckConfig", "InitializeParams"}, {})
    \cup Pure({"DoDequeue", "DoEnqueue", "DoPeek"}, {"QueueDiscItem"})

QueueDiscClassMethods ==
  Calls({"new"}, {})
    \cup Calls({"GetQueueDisc", "SetQueueDisc"}, {"QueueDisc"})
    \cup Calls({"new"}, {"QueueDiscClass"})
    \cup Calls({"GetTypeId"}, {"TypeId"})

RedQueueDiscMethods ==
  Calls({"CheckConfig", "InitializeParams", "new"}, {})
    \cup Calls({"GetMode", "SetMode"}, {"Queue::QueueMode"})
    \cup Calls({"DoDequeue", "DoEnqueue", "DoPeek"}, {"QueueDiscItem"})
    \cup Calls({"new"}, {"RedQueueDisc"})
    \cup Calls({"GetStats"}, {"RedQueueDisc::Stats"})
    \cup Calls({"GetTypeId"}, {"TypeId"})

RedQueueDiscStatsMethods ==
  Calls({"forcedDrop", "new", "qLimDrop", "unforcedDrop"}, {})
    \cup Calls({"new"}, {"RedQueueDisc::Stats"})

TrafficControlLayerMethods ==
  Calls({"new"}, {})
    \cup Calls({"DeleteRootQueueDiscOnDevice", "SetupDevice"}, {"NetDevice"})
    \cup Calls({"SetNode"}, {"Node"})
    \cup Calls({"GetInstanceTypeId", "GetTypeId"}, {"TypeId"})
    \cup Calls({"RegisterProtocolHandler"},
       {"Callback<void,NetDevice,Packet,...>", "NetDevice"})
    \cup Calls({"GetRootQueueDiscOnDevice", "SetRootQueueDiscOnDevice"},
       {"NetDevice", "QueueDisc"})
    \cup Calls({"Send"}, {"NetDevice", "QueueDiscItem"})
    \cup Calls({"Receive"}, {"Address", "NetDevice", "NetDevice::PacketType",
       "Packet"})

CoDelQueueDiscMethods ==
  Calls({"CheckConfig", "InitializeParams", "new"}, {})
    \cup Calls({"new"}, {"CoDelQueueDisc"})
    \cup Calls({"GetMode", "SetMode"}, {"Queue::QueueMode"})
    \cup Calls({"DoDequeue", "DoEnqueue", "DoPeek"}, {"QueueDiscItem"})
    \cup Calls({"GetInterval", "GetTarget"}, {"Time"})
    \cup Calls({"GetTypeId"}, {"TypeId"})

FqCoDelFlowMethods ==
  Calls({"new"}, {}) \cup Calls({"new"}, {"FqCoDelFlow"})
    \cup Calls({"GetStatus", "SetStatus"}, {"FqCoDelFlow::FlowStatus"})
    \cup Calls({"GetTypeId"}, {"TypeId"})

FqCoDelQueueDiscMethods ==
  Calls({"CheckConfig", "InitializeParams", "new"}, {})
    \cup Calls({"new"}, {"FqCoDelQueueDisc"})
    \cup Calls({"DoDequeue", "DoEnqueue", "DoPeek"}, {"QueueDiscItem"})
    \cup Calls({"GetTypeId"}, {"TypeId"})

PfifoFastQueueDiscMethods ==
  Calls({"CheckConfig", "InitializeParams", "new"}, {})
    \cup Calls({"new"}, {"PfifoFastQueueDisc"})
    \cup Calls({"DoDequeue", "DoEnqueue", "DoPeek"}, {"QueueDiscItem"})
    \cup Calls({"GetTypeId"}, {"TypeId"})

PieQueueDiscMethods ==
  Calls({"CheckConfig", "InitializeParams", "new"}, {})
    \cup Calls({"new"}, {"PieQueueDisc"})
    \cup Calls({"GetStats"}, {"PieQueueDisc::Stats"})
    \cup Calls({"GetMode", "SetMode"}, {"Queue::QueueMode"})
    \cup Calls({"DoDequeue", "DoEnqueue", "DoPeek"}, {"QueueDiscItem"})
    \cup Calls({"GetQueueDelay"}, {"Time"})
    \cup Calls({"GetTypeId"}, {"TypeId"})

PieQueueDiscStatsMethods ==
  Calls({"forcedDrop", "new", "unforcedDrop"}, {})
    \cup Calls({"new"}, {"PieQueueDisc::Stats"})

QueueDiscItemMethods ==
  Calls({"GetAddress"}, {"Address"})
    \cup Calls({"new"}, {"Address", "Packet"}) \cup Pure({"AddHeader"}, {})

ObjectMethods ==
  Calls({"new"}, {}) \cup Calls({"AggregateObject", "new"}, {"Object"})
    \cup Calls({"GetAggregateIterator"}, {"Object::AggregateIterator"})
    \cup Calls({"GetInstanceTypeId", "GetTypeId"}, {"TypeId"})

ObjectBaseMethods ==
  Calls({"new"}, {})
    \cup Calls({"ConstructSelf"}, {"AttributeConstructionList"})
    \cup Calls({"GetAttribute", "GetAttributeFailSafe", "SetAttribute",
       "SetAttributeFailSafe"}, {"AttributeValue"})
    \cup Calls({"TraceConnect", "TraceConnectWithoutContext",
       "TraceDisconnect", "TraceDisconnectWithoutContext"}, {"CallbackBase"})
    \cup Calls({"new"}, {"ObjectBase"}) \cup Calls({"GetTypeId"}, {"TypeId"})
    \cup Pure({"GetInstanceTypeId"}, {"TypeId"})

QueueItemMethods ==
  Calls({"GetPacket", "new"}, {"Packet"})
    \cup Calls({"GetUint8Value"}, {"QueueItem::Uint8Values"})

----------------------------------------------------------------------------
(* register_functions looks up these namespaces                            *)
Submodules ==
  <<"FatalImpl", "Hash", "Hash::Function", "TracedValueCallback", "internal">>

(* callbacks_list.py: the Callback types that pybindgen makes              *)
CallbackClasses ==
  {"Callback<uint8,QueueItem>", "Callback<void,NetDevice,Packet,...>",
   "Callback<void,QueueItem>", "Callback<void>"}

----------------------------------------------------------------------------
(* modulegen__gcc_ILP32.py: the same calls                                 *)
TypesCore32 == TypesCore
TypesObjects32 == TypesObjects
TypesDiscs32 == TypesDiscs
Containers32 == Containers
HashFunctionTypes32 == HashFunctionTypes
HashTypes32 == HashTypes
TracedValueAliases32 == TracedValueAliases
Namespaces32 == Namespaces
ClassesCore32 == ClassesCore
ClassesRest32 == ClassesRest
QueueDiscContainerMethods32 == QueueDiscContainerMethods
QueueDiscFactoryMethods32 == QueueDiscFactoryMethods
TrafficControlHelperMethods32 == TrafficControlHelperMethods
PacketFilterMethods32 == PacketFilterMethods
QueueDiscMethods32 == QueueDiscMethods
QueueDiscClassMethods32 == QueueDiscClassMethods
RedQueueDiscMethods32 == RedQueueDiscMethods
RedQueueDiscStatsMethods32 == RedQueueDiscStatsMethods
TrafficControlLayerMethods32 == TrafficControlLayerMethods
CoDelQueueDiscMethods32 == CoDelQueueDiscMethods
FqCoDelFlowMethods32 == FqCoDelFlowMethods
FqCoDelQueueDiscMethods32 == FqCoDelQueueDiscMethods
PfifoFastQueueDiscMethods32 == PfifoFastQueueDiscMethods
PieQueueDiscMethods32 == PieQueueDiscMethods
PieQueueDiscStatsMethods32 == PieQueueDiscStatsMethods
QueueDiscItemMethods32 == QueueDiscItemMethods
ObjectMethods32 == ObjectMethods
ObjectBaseMethods32 == ObjectBaseMethods
QueueItemMethods32 == QueueItemMethods
Submodules32 == Submodules
=============================================================================
