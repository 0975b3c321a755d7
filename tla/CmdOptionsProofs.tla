-------------------------- MODULE CmdOptionsProofs --------------------------
(***************************************************************************)
(* Proofs about CmdOptions for every set of command lines and every range  *)
(* of int: type correctness, what the parser refuses, the number of        *)
(* threads, and which directory a relative path is relative to.            *)
(***************************************************************************)
EXTENDS CmdOptions, FlattenFacts

-----------------------------------------------------------------------------
(* The registry: the keys of the six registering functions one after the   *)
(* other.                                                                  *)

Registration == [key: Key, takes: Takes]

KeysIn(opts) == {opts[i].key : i \in DOMAIN opts}
Distinct(opts) == \A i, j \in DOMAIN opts : opts[i].key = opts[j].key => i = j

\* How many values each key is to take: two flags, two lists, one for the others.
TakesOf(key) ==
  IF key \in Flags THEN "none" ELSE IF key \in MultiPath THEN "many" ELSE "one"
AsToTake(opts) == \A i \in DOMAIN opts : opts[i].takes = TakesOf(opts[i].key)

\* opts registers the given keys, each for the values it is to take, and none of
\* them twice.
Registers(opts, keys) ==
  opts \in Seq(Registration) /\ KeysIn(opts) = keys /\ Distinct(opts) /\ AsToTake(opts)

\* The same of a list of keys, and what registering them makes of it.
Lists(names, keys) ==
  /\ names \in Seq(Key)
  /\ {names[i] : i \in DOMAIN names} = keys
  /\ \A i, j \in DOMAIN names : names[i] = names[j] => i = j

LEMMA EachTyped ==
  ASSUME NEW takes \in Takes, NEW names \in Seq(Key),
         \A i \in DOMAIN names : TakesOf(names[i]) = takes
  PROVE  /\ Each(takes, names) \in Seq(Registration)
         /\ Len(Each(takes, names)) = Len(names)
         /\ DOMAIN Each(takes, names) = DOMAIN names
         /\ \A i \in DOMAIN names : Each(takes, names)[i] = [key |-> names[i], takes |-> takes]
         /\ AsToTake(Each(takes, names))
<1>1. /\ Len(names) \in Nat /\ DOMAIN names = 1..Len(names)
      /\ \A i \in 1..Len(names) : names[i] \in Key
  BY LenProperties, ElementOfSeq
<1>2. Each(takes, names) \in [1..Len(names) -> Registration]
  BY <1>1 DEF Each, Registration
<1>3. Each(takes, names) \in Seq(Registration) /\ Len(Each(takes, names)) = Len(names)
  BY <1>1, <1>2, FunctionIsSeq
<1> QED
  BY <1>1, <1>3 DEF Each, AsToTake

LEMMA EachRegisters ==
  ASSUME NEW takes \in Takes, NEW names, NEW keys, Lists(names, keys),
         \A key \in keys : TakesOf(key) = takes
  PROVE  Registers(Each(takes, names), keys)
<1>1. /\ names \in Seq(Key) /\ \A i \in DOMAIN names : TakesOf(names[i]) = takes
  BY DEF Lists
<1>2. /\ Each(takes, names) \in Seq(Registration)
      /\ DOMAIN Each(takes, names) = DOMAIN names
      /\ \A i \in DOMAIN names : Each(takes, names)[i] = [key |-> names[i], takes |-> takes]
      /\ AsToTake(Each(takes, names))
  BY <1>1, EachTyped
<1>3. \A i \in DOMAIN names : Each(takes, names)[i].key = names[i]
  BY <1>2
<1>4. KeysIn(Each(takes, names)) = keys
  BY <1>2, <1>3 DEF KeysIn, Lists
<1>5. Distinct(Each(takes, names))
  BY <1>2, <1>3 DEF Distinct, Lists
<1> QED
  BY <1>2, <1>4, <1>5 DEF Registers

LEMMA ConcatKeys ==
  ASSUME NEW s \in Seq(Registration), NEW t \in Seq(Registration)
  PROVE  /\ s \o t \in Seq(Registration)
         /\ KeysIn(s \o t) = KeysIn(s) \cup KeysIn(t)
         /\ AsToTake(s) /\ AsToTake(t) => AsToTake(s \o t)
<1>1. /\ s \o t \in Seq(Registration)
      /\ Len(s \o t) = Len(s) + Len(t)
      /\ \A i \in 1..(Len(s) + Len(t)) :
           (s \o t)[i] = IF i <= Len(s) THEN s[i] ELSE t[i - Len(s)]
  BY ConcatProperties
<1>2. /\ Len(s) \in Nat /\ Len(t) \in Nat
      /\ DOMAIN s = 1..Len(s) /\ DOMAIN t = 1..Len(t)
      /\ DOMAIN (s \o t) = 1..(Len(s) + Len(t))
  BY <1>1, LenProperties
<1>3. ASSUME NEW i \in DOMAIN (s \o t)
      PROVE  /\ (s \o t)[i].key \in KeysIn(s) \cup KeysIn(t)
             /\ AsToTake(s) /\ AsToTake(t) => (s \o t)[i].takes = TakesOf((s \o t)[i].key)
  <2>1. CASE i <= Len(s)
    BY <1>1, <1>2, <1>3, <2>1 DEF KeysIn, AsToTake
  <2>2. CASE i > Len(s)
    <3>1. i - Len(s) \in DOMAIN t /\ (s \o t)[i] = t[i - Len(s)]
      BY <1>1, <1>2, <1>3, <2>2
    <3> QED
      BY <3>1 DEF KeysIn, AsToTake
  <2> QED
    BY <1>2, <1>3, <2>1, <2>2
<1>4. ASSUME NEW i \in DOMAIN s
      PROVE  s[i].key \in KeysIn(s \o t)
  <2>1. i \in DOMAIN (s \o t) /\ (s \o t)[i] = s[i]
    BY <1>1, <1>2, <1>4
  <2> QED
    BY <2>1 DEF KeysIn
<1>5. ASSUME NEW i \in DOMAIN t
      PROVE  t[i].key \in KeysIn(s \o t)
  <2>1. Len(s) + i \in DOMAIN (s \o t) /\ (s \o t)[Len(s) + i] = t[i]
    BY <1>1, <1>2, <1>5
  <2> QED
    BY <2>1 DEF KeysIn
<1> QED
  BY <1>1, <1>3, <1>4, <1>5 DEF KeysIn, AsToTake

LEMMA ConcatDistinct ==
  ASSUME NEW s \in Seq(Registration), NEW t \in Seq(Registration), Distinct(s), Distinct(t),
         KeysIn(s) \cap KeysIn(t) = {}
  PROVE  Distinct(s \o t)
<1>1. /\ Len(s \o t) = Len(s) + Len(t)
      /\ \A i \in 1..(Len(s) + Len(t)) :
           (s \o t)[i] = IF i <= Len(s) THEN s[i] ELSE t[i - Len(s)]
  BY ConcatProperties
<1>2. /\ Len(s) \in Nat /\ Len(t) \in Nat
      /\ DOMAIN s = 1..Len(s) /\ DOMAIN t = 1..Len(t)
      /\ DOMAIN (s \o t) = 1..(Len(s) + Len(t))
  BY <1>1, ConcatProperties, LenProperties
<1>3. SUFFICES ASSUME NEW i \in DOMAIN (s \o t), NEW j \in DOMAIN (s \o t),
                      (s \o t)[i].key = (s \o t)[j].key
               PROVE  i = j
  BY DEF Distinct
<1>4. \A k \in 1..Len(s), l \in 1..Len(t) : s[k].key # t[l].key
  BY <1>2 DEF KeysIn
<1>5. CASE i <= Len(s) /\ j <= Len(s)
  BY <1>1, <1>2, <1>3, <1>5 DEF Distinct
<1>6. CASE i > Len(s) /\ j > Len(s)
  <2>1. /\ i - Len(s) \in DOMAIN t /\ j - Len(s) \in DOMAIN t
        /\ t[i - Len(s)].key = t[j - Len(s)].key
    BY <1>1, <1>2, <1>3, <1>6
  <2>2. i - Len(s) = j - Len(s)
    BY <2>1 DEF Distinct
  <2> QED
    BY <1>2, <2>2
<1>7. CASE i <= Len(s) /\ j > Len(s)
  <2>1. i \in 1..Len(s) /\ j - Len(s) \in 1..Len(t) /\ s[i].key = t[j - Len(s)].key
    BY <1>1, <1>2, <1>3, <1>7
  <2> QED
    BY <1>4, <2>1
<1>8. CASE i > Len(s) /\ j <= Len(s)
  <2>1. j \in 1..Len(s) /\ i - Len(s) \in 1..Len(t) /\ s[j].key = t[i - Len(s)].key
    BY <1>1, <1>2, <1>3, <1>8
  <2> QED
    BY <1>4, <2>1
<1> QED
  BY <1>2, <1>5, <1>6, <1>7, <1>8

LEMMA ConcatRegisters ==
  ASSUME NEW s, NEW t, NEW S, NEW T, Registers(s, S), Registers(t, T), S \cap T = {}
  PROVE  Registers(s \o t, S \cup T)
BY ConcatKeys, ConcatDistinct DEF Registers

CommonKeys == {"help", "version"}
PluginPaths == {"plugins_dir", "plugins_config"}
ExtraPlugins == {"load_plugin"}
PluginKeys == {"plugins_dir", "plugins_config", "load_plugin"}
ClingKeys == {"cling_scripts"}
TracingKeys == {"tracing_categories"}
ToolKeys == {"outdir", "indir", "threads", "J"}

FlextoolOptions ==
  registerToolOptions(registerTracingOptions(registerClingOptions(
    registerPluginsOptions(registerCommonOptions(<<>>)))))

\* flextool's own five functions claim different keys.
LEMMA FlextoolRegistry == Registers(FlextoolOptions, FlextoolKeys)
<1> USE DEF Key, FlextoolKeys, Takes, TakesOf, Flags, MultiPath
<1>1. Registers(registerCommonOptions(<<>>), CommonKeys)
  <2>1. Lists(<<"help", "version">>, CommonKeys)
    BY DEF Lists, CommonKeys
  <2>2. Registers(Each("none", <<"help", "version">>), CommonKeys)
    BY <2>1, EachRegisters DEF CommonKeys
  <2> QED
    BY <2>2, ConcatEmptySeq DEF registerCommonOptions, Registers
<1>2. Registers(Each("one", <<"plugins_dir", "plugins_config">>), PluginPaths)
  <2>1. Lists(<<"plugins_dir", "plugins_config">>, PluginPaths)
    BY DEF Lists, PluginPaths
  <2> QED
    BY <2>1, EachRegisters DEF PluginPaths
<1>3. Registers(Each("many", <<"load_plugin">>), ExtraPlugins)
  <2>1. Lists(<<"load_plugin">>, ExtraPlugins)
    BY DEF Lists, ExtraPlugins
  <2> QED
    BY <2>1, EachRegisters DEF ExtraPlugins
<1>4. Registers(Each("many", <<"cling_scripts">>), ClingKeys)
  <2>1. Lists(<<"cling_scripts">>, ClingKeys)
    BY DEF Lists, ClingKeys
  <2> QED
    BY <2>1, EachRegisters DEF ClingKeys
<1>5. Registers(Each("one", <<"tracing_categories">>), TracingKeys)
  <2>1. Lists(<<"tracing_categories">>, TracingKeys)
    BY DEF Lists, TracingKeys
  <2> QED
    BY <2>1, EachRegisters DEF TracingKeys
<1>6. Registers(Each("one", <<"outdir", "indir", "threads", "J">>), ToolKeys)
  <2>1. Lists(<<"outdir", "indir", "threads", "J">>, ToolKeys)
    BY DEF Lists, ToolKeys
  <2> QED
    BY <2>1, EachRegisters DEF ToolKeys
<1>7. /\ CommonKeys \cap PluginPaths = {}
      /\ (CommonKeys \cup PluginPaths) \cap ExtraPlugins = {}
      /\ PluginKeys = PluginPaths \cup ExtraPlugins
      /\ (CommonKeys \cup PluginKeys) \cap ClingKeys = {}
      /\ (CommonKeys \cup PluginKeys \cup ClingKeys) \cap TracingKeys = {}
      /\ (CommonKeys \cup PluginKeys \cup ClingKeys \cup TracingKeys) \cap ToolKeys = {}
  BY DEF CommonKeys, PluginPaths, ExtraPlugins, PluginKeys, ClingKeys, TracingKeys, ToolKeys
<1>8. CommonKeys \cup PluginKeys \cup ClingKeys \cup TracingKeys \cup ToolKeys = FlextoolKeys
  BY DEF CommonKeys, PluginPaths, ExtraPlugins, PluginKeys, ClingKeys, TracingKeys, ToolKeys
<1> HIDE DEF Key, FlextoolKeys, Takes, TakesOf, Flags, MultiPath
<1>9. \A opts : Registers(opts, CommonKeys) =>
        Registers(registerPluginsOptions(opts), CommonKeys \cup PluginKeys)
  <2> SUFFICES ASSUME NEW opts, Registers(opts, CommonKeys)
               PROVE  Registers(registerPluginsOptions(opts), CommonKeys \cup PluginKeys)
    OBVIOUS
  <2>1. Registers(opts \o Each("one", <<"plugins_dir", "plugins_config">>),
                  CommonKeys \cup PluginPaths)
    BY <1>2, <1>7, ConcatRegisters
  <2>2. Registers(registerPluginsOptions(opts), (CommonKeys \cup PluginPaths) \cup ExtraPlugins)
    BY <1>3, <1>7, <2>1, ConcatRegisters DEF registerPluginsOptions
  <2>3. (CommonKeys \cup PluginPaths) \cup ExtraPlugins = CommonKeys \cup PluginKeys
    BY <1>7
  <2> QED
    BY <2>2, <2>3
<1>10. \A opts : Registers(opts, CommonKeys \cup PluginKeys) =>
        Registers(registerClingOptions(opts), CommonKeys \cup PluginKeys \cup ClingKeys)
  BY <1>4, <1>7, ConcatRegisters DEF registerClingOptions
<1>11. \A opts : Registers(opts, CommonKeys \cup PluginKeys \cup ClingKeys) =>
         Registers(registerTracingOptions(opts),
                   CommonKeys \cup PluginKeys \cup ClingKeys \cup TracingKeys)
  BY <1>5, <1>7, ConcatRegisters DEF registerTracingOptions
<1>12. \A opts : Registers(opts, CommonKeys \cup PluginKeys \cup ClingKeys \cup TracingKeys) =>
         Registers(registerToolOptions(opts),
                   CommonKeys \cup PluginKeys \cup ClingKeys \cup TracingKeys \cup ToolKeys)
  BY <1>6, <1>7, ConcatRegisters DEF registerToolOptions
<1> QED
  BY <1>1, <1>8, <1>9, <1>10, <1>11, <1>12 DEF FlextoolOptions

AllOptions == registerBaseSwitches(FlextoolOptions, run.platform)
Everywhere == FlextoolKeys \cup EverywhereSwitches

EverywhereSwitchList ==
  <<"disable-best-effort-tasks", "disable-breakpad", "disable-features",
    "disable-low-end-device-mode", "enable-crash-reporter", "enable-features",
    "enable-low-end-device-mode", "force-fieldtrials", "full-memory-crash-report",
    "noerrdialogs", "profiling-at-start", "profiling-file", "profiling-flush",
    "test-child-process", "test-do-not-initialize-icu", "trace-to-file",
    "trace-to-file-name", "v", "vmodule", "wait-for-debugger">>

\* The switches of base that are registered on every platform.
LEMMA EverywhereRegistry == Registers(Each("one", EverywhereSwitchList), EverywhereSwitches)
<1>1. EverywhereSwitchList \in Seq(EverywhereSwitches)
  BY DEF EverywhereSwitches, EverywhereSwitchList
<1>2. {EverywhereSwitchList[i] : i \in DOMAIN EverywhereSwitchList} = EverywhereSwitches
  BY DEF EverywhereSwitches, EverywhereSwitchList
<1>3. \A i, j \in DOMAIN EverywhereSwitchList :
        EverywhereSwitchList[i] = EverywhereSwitchList[j] => i = j
  BY SMTT(60) DEF EverywhereSwitchList
<1>4. EverywhereSwitchList \in Seq(Key)
  BY <1>1, ElementOfSeq, SeqDef DEF Key
<1>5. \A key \in EverywhereSwitches : TakesOf(key) = "one"
  BY DEF EverywhereSwitches, TakesOf, Flags, MultiPath
<1>6. Lists(EverywhereSwitchList, EverywhereSwitches)
  BY <1>2, <1>3, <1>4 DEF Lists
<1> QED
  BY <1>5, <1>6, EachRegisters DEF Takes

\* What both platforms share.
LEMMA SharedRegistry ==
  \E shared :
    /\ Registers(shared, Everywhere)
    /\ \A platform : registerBaseSwitches(FlextoolOptions, platform) =
         shared \o Each("one", IF platform = "windows"
                              THEN <<"disable-usb-keyboard-detect", "disable-usb-keyboard-detect">>
                              ELSE <<"disable-dev-shm-usage", "enable-crash-reporter-for-testing",
                                     "enable-thread-instruction-count">>)
<1> DEFINE shared == FlextoolOptions \o Each("one", EverywhereSwitchList)
<1>1. FlextoolKeys \cap EverywhereSwitches = {}
  BY DEF FlextoolKeys, EverywhereSwitches
<1>2. Registers(shared, Everywhere)
  BY <1>1, FlextoolRegistry, EverywhereRegistry, ConcatRegisters DEF Everywhere
<1> QED
  BY <1>2 DEF registerBaseSwitches, EverywhereSwitchList

\* No key is registered twice but one, and that on Windows only.
LEMMA WholeRegistry ==
  /\ run.platform = "linux" => Registers(AllOptions, Everywhere \cup LinuxSwitches)
  /\ run.platform = "windows" =>
       /\ AllOptions \in Seq(Registration) /\ AsToTake(AllOptions)
       /\ KeysIn(AllOptions) = Everywhere \cup WindowsSwitches
       /\ \A i, j \in DOMAIN AllOptions :
            i # j /\ AllOptions[i].key = AllOptions[j].key => AllOptions[i].key \in WindowsSwitches
       /\ \E i, j \in DOMAIN AllOptions :
            /\ i # j
            /\ AllOptions[i].key = "disable-usb-keyboard-detect"
            /\ AllOptions[j].key = "disable-usb-keyboard-detect"
<1>1. PICK shared :
        /\ Registers(shared, Everywhere)
        /\ \A platform : registerBaseSwitches(FlextoolOptions, platform) =
             shared \o Each("one", IF platform = "windows"
                                  THEN <<"disable-usb-keyboard-detect",
                                         "disable-usb-keyboard-detect">>
                                  ELSE <<"disable-dev-shm-usage",
                                         "enable-crash-reporter-for-testing",
                                         "enable-thread-instruction-count">>)
  BY SharedRegistry
<1>2. ASSUME run.platform = "linux"
      PROVE  Registers(AllOptions, Everywhere \cup LinuxSwitches)
  <2> DEFINE list == <<"disable-dev-shm-usage", "enable-crash-reporter-for-testing",
                       "enable-thread-instruction-count">>
  <2>1. Lists(list, LinuxSwitches)
    BY DEF Lists, LinuxSwitches, Key
  <2>2. \A key \in LinuxSwitches : TakesOf(key) = "one"
    BY DEF LinuxSwitches, TakesOf, Flags, MultiPath
  <2>3. Everywhere \cap LinuxSwitches = {}
    BY DEF Everywhere, FlextoolKeys, EverywhereSwitches, LinuxSwitches
  <2>4. AllOptions = shared \o Each("one", list)
    BY <1>1, <1>2 DEF AllOptions
  <2> HIDE DEF list
  <2>5. Registers(Each("one", list), LinuxSwitches)
    BY <2>1, <2>2, EachRegisters DEF Takes
  <2> QED
    BY <1>1, <2>3, <2>4, <2>5, ConcatRegisters
<1>3. ASSUME run.platform = "windows"
      PROVE  /\ AllOptions \in Seq(Registration) /\ AsToTake(AllOptions)
             /\ KeysIn(AllOptions) = Everywhere \cup WindowsSwitches
             /\ \A i, j \in DOMAIN AllOptions :
                  i # j /\ AllOptions[i].key = AllOptions[j].key =>
                    AllOptions[i].key \in WindowsSwitches
             /\ \E i, j \in DOMAIN AllOptions :
                  /\ i # j
                  /\ AllOptions[i].key = "disable-usb-keyboard-detect"
                  /\ AllOptions[j].key = "disable-usb-keyboard-detect"
  <2> DEFINE list == <<"disable-usb-keyboard-detect", "disable-usb-keyboard-detect">>
             twice == Each("one", list)
  <2>1. /\ list \in Seq(Key) /\ Len(list) = 2 /\ DOMAIN list = {1, 2}
        /\ list[1] = "disable-usb-keyboard-detect" /\ list[2] = "disable-usb-keyboard-detect"
        /\ \A i \in DOMAIN list : TakesOf(list[i]) = "one"
    BY DEF WindowsSwitches, Key, TakesOf, Flags, MultiPath
  <2>2. AllOptions = shared \o twice
    BY <1>1, <1>3 DEF AllOptions
  <2> HIDE DEF list
  <2>3. /\ twice \in Seq(Registration) /\ Len(twice) = 2 /\ DOMAIN twice = {1, 2}
        /\ twice[1].key = "disable-usb-keyboard-detect"
        /\ twice[2].key = "disable-usb-keyboard-detect"
        /\ AsToTake(twice)
    <3>1. "one" \in Takes
      BY DEF Takes
    <3> HIDE DEF twice
    <3>2. /\ twice \in Seq(Registration) /\ Len(twice) = Len(list) /\ DOMAIN twice = DOMAIN list
          /\ \A i \in DOMAIN list : twice[i] = [key |-> list[i], takes |-> "one"]
          /\ AsToTake(twice)
      BY <2>1, <3>1, EachTyped DEF twice
    <3> QED
      BY <2>1, <3>2
  <2> HIDE DEF twice
  <2>4. KeysIn(twice) = WindowsSwitches
    BY <2>3 DEF KeysIn, WindowsSwitches
  <2>5. /\ shared \in Seq(Registration) /\ KeysIn(shared) = Everywhere
        /\ Distinct(shared) /\ AsToTake(shared)
    BY <1>1 DEF Registers
  <2>6. /\ Len(shared) \in Nat
        /\ DOMAIN shared = 1..Len(shared)
        /\ DOMAIN AllOptions = 1..(Len(shared) + 2)
        /\ \A i \in 1..(Len(shared) + 2) :
             AllOptions[i] = IF i <= Len(shared) THEN shared[i] ELSE twice[i - Len(shared)]
    <3>1. /\ Len(shared \o twice) = Len(shared) + Len(twice)
          /\ \A i \in 1..(Len(shared) + Len(twice)) :
               (shared \o twice)[i] =
                 IF i <= Len(shared) THEN shared[i] ELSE twice[i - Len(shared)]
          /\ shared \o twice \in Seq(Registration)
      BY <2>3, <2>5, ConcatProperties
    <3>2. /\ Len(shared) \in Nat /\ DOMAIN shared = 1..Len(shared)
          /\ DOMAIN (shared \o twice) = 1..Len(shared \o twice)
      BY <2>5, <3>1, LenProperties
    <3> QED
      BY <2>2, <2>3, <3>1, <3>2
  <2>7. \A i \in DOMAIN AllOptions : i > Len(shared) =>
          AllOptions[i].key = "disable-usb-keyboard-detect"
    BY <2>3, <2>6
  <2>8. ASSUME NEW i \in DOMAIN AllOptions, NEW j \in DOMAIN AllOptions,
               i # j, AllOptions[i].key = AllOptions[j].key
        PROVE  AllOptions[i].key \in WindowsSwitches
    <3>1. CASE i <= Len(shared) /\ j <= Len(shared)
      BY <2>5, <2>6, <2>8, <3>1 DEF Distinct
    <3>2. CASE i > Len(shared) \/ j > Len(shared)
      BY <2>7, <2>8, <3>2 DEF WindowsSwitches
    <3> QED
      BY <2>6, <3>1, <3>2
  <2>9. /\ Len(shared) + 1 \in DOMAIN AllOptions /\ Len(shared) + 2 \in DOMAIN AllOptions
        /\ Len(shared) + 1 # Len(shared) + 2
        /\ AllOptions[Len(shared) + 1].key = "disable-usb-keyboard-detect"
        /\ AllOptions[Len(shared) + 2].key = "disable-usb-keyboard-detect"
    BY <2>6, <2>7
  <2>10. /\ AllOptions \in Seq(Registration) /\ AsToTake(AllOptions)
         /\ KeysIn(AllOptions) = Everywhere \cup WindowsSwitches
    BY <2>2, <2>3, <2>4, <2>5, ConcatKeys
  <2> QED
    BY <2>8, <2>9, <2>10
<1> QED
  BY <1>2, <1>3

-----------------------------------------------------------------------------
(* What the parser leaves behind.  Nothing is registered before its time,  *)
(* and whatever the environments ask for, they ask of the same parsed      *)
(* options.                                                                *)

Environments == {"base", "plugin", "database", "clang", "cling", "commands", "done"}

Parsed ==
  /\ options = AllOptions
  /\ ParserAccepts
  /\ parsed = Typed \cap Registered
  /\ unregistered = Typed \ Registered
  /\ cmdOptions_ = [thread_num_arg |-> Numbers,
                    cling_scripts |-> Values("cling_scripts"),
                    pathsToExtraPluginFiles |-> Values("load_plugin")]

RegistryInv ==
  /\ pc \in {"main", "register"} => options = <<>>
  /\ pc \in {"parse"} \cup ParseFailed => options = AllOptions
  /\ pc \in ParseFailed => ~ParserAccepts
  /\ pc \in {"main", "register", "parse"} \cup ParseFailed =>
       answers = {} /\ threads = 0 /\ parsed = {}
  /\ pc \in Environments \/ answers # {} \/ threads # 0 \/ parsed # {} => Parsed

LEMMA RegistryInit == Init => RegistryInv
BY DEF Init, RegistryInv, Environments, ParseFailed

\* What is read from unchanged variables stays the same.
LEMMA ReadersKept ==
  /\ UNCHANGED run => UNCHANGED <<Typed, AllOptions, Numbers>> /\ \A key : UNCHANGED Values(key)
  /\ UNCHANGED <<run, options>> => (ParserAccepts' <=> ParserAccepts)
  /\ UNCHANGED <<run, options, parsed, unregistered, cmdOptions_>> => (Parsed' <=> Parsed)
<1>1. UNCHANGED run => UNCHANGED <<Typed, AllOptions, Numbers>> /\ \A key : UNCHANGED Values(key)
  BY DEF Typed, AllOptions, Numbers, Values
<1>2. UNCHANGED options => UNCHANGED Registered /\ \A key : Ambiguous(key)' <=> Ambiguous(key)
  BY DEF Registered, Ambiguous
<1>3. ASSUME UNCHANGED <<run, options>> PROVE ParserAccepts' <=> ParserAccepts
  <2>1. \A key : UNCHANGED Occurrences(key)
    BY <1>3 DEF Occurrences
  <2>2. \A option : Fits(option)' <=> Fits(option)
    BY <2>1 DEF Fits
  <2>3. UNCHANGED <<Typed, Numbers>> /\ \A key : Ambiguous(key)' <=> Ambiguous(key)
    BY <1>1, <1>2, <1>3
  <2> QED
    BY <1>3, <2>2, <2>3 DEF ParserAccepts
<1> QED
  BY <1>1, <1>2, <1>3 DEF Parsed

LEMMA RegistryNext == RegistryInv /\ [Next]_vars => RegistryInv'
<1> SUFFICES ASSUME RegistryInv, [Next]_vars PROVE RegistryInv'
  OBVIOUS
<1> USE DEF answered, Environments, ParseFailed
<1>1. CASE Construct
  BY <1>1 DEF Construct, RegistryInv
<1>2. CASE RegisterOptions
  <2>1. CASE run.exeKnown
    <3>1. options' = AllOptions' /\ pc' = "parse"
      BY <1>2, <2>1 DEF RegisterOptions, RegistryInv, AllOptions, FlextoolOptions
    <3> QED
      BY <1>2, <3>1 DEF RegisterOptions, RegistryInv
  <2>2. CASE ~run.exeKnown
    BY <1>2, <2>2 DEF RegisterOptions, FailInit, RegistryInv
  <2> QED
    BY <2>1, <2>2
<1>3. CASE ParseArguments
  <2>1. /\ pc = "parse" /\ options = AllOptions /\ answers = {} /\ threads = 0 /\ parsed = {}
        /\ UNCHANGED <<run, options, answers, threads>>
    BY <1>3 DEF ParseArguments, RegistryInv
  <2>2. /\ UNCHANGED <<Typed, AllOptions, Registered, Numbers>>
        /\ \A key : UNCHANGED Values(key)
        /\ ParserAccepts' <=> ParserAccepts
    BY <2>1, ReadersKept DEF Registered
  <2>3. CASE ParserAccepts
    <3>1. Parsed' /\ pc' = "base"
      BY <1>3, <2>1, <2>2, <2>3 DEF ParseArguments, Parsed
    <3> QED
      BY <2>1, <3>1 DEF RegistryInv
  <2>4. CASE ~ParserAccepts
    <3>1. pc' \in {"parse_failed", "parse_aborted"} /\ UNCHANGED parsed
      BY <1>3, <2>4 DEF ParseArguments
    <3> QED
      BY <2>1, <2>2, <2>4, <3>1 DEF RegistryInv
  <2> QED
    BY <2>3, <2>4
<1>4. CASE /\ pc \in Environments
           /\ pc' \in Environments \cup {"failed", "aborted"}
           /\ UNCHANGED <<run, options, parsed, unregistered, cmdOptions_>>
  BY <1>4, ReadersKept DEF RegistryInv
<1>5. CASE InitBase \/ InitPlugin \/ CheckDatabase
  BY <1>4, <1>5 DEF InitBase, InitPlugin, CheckDatabase
<1>6. CASE InitClang \/ InitCling \/ HandleCmdOptions
  BY <1>4, <1>6 DEF InitClang, InitCling, HandleCmdOptions
<1>7. CASE UNCHANGED vars
  <2>1. UNCHANGED <<run, pc, options, parsed, unregistered, cmdOptions_, answers, threads>>
    BY <1>7 DEF vars
  <2> QED
    BY <2>1, ReadersKept DEF RegistryInv
<1> QED
  BY <1>1, <1>2, <1>3, <1>5, <1>6, <1>7 DEF Next, Step, Finished

-----------------------------------------------------------------------------
(* Type correctness.                                                       *)

LEMMA CommandLineTyped ==
  ASSUME run \in Run
  PROVE  /\ Numbers \in Seq(Int)
         /\ \A key \in SinglePath \cup MultiPath : Values(key) \in Seq(Path)
         /\ run.platform \in {"linux", "windows"}
         /\ DOMAIN run.commandLine.others \subseteq OtherKeys
         /\ run.commandLine.malformed \in BOOLEAN
<1>1. run.commandLine \in CommandLines /\ run.platform \in {"linux", "windows"}
  BY DEF Run
<1>2. /\ run.commandLine.threads \in Seq(Seq(Int))
      /\ run.commandLine.paths \in [SinglePath \cup MultiPath -> Seq(Seq(Path))]
      /\ DOMAIN run.commandLine.others \subseteq OtherKeys
      /\ run.commandLine.malformed \in BOOLEAN
  BY <1>1, CommandLinesTyped
<1>3. ASSUME NEW key \in SinglePath \cup MultiPath PROVE Values(key) \in Seq(Path)
  BY <1>2, FlattenSeqTyped DEF Values
<1>4. Numbers \in Seq(Int)
  BY <1>2, FlattenSeqTyped DEF Numbers
<1> QED
  BY <1>1, <1>2, <1>3, <1>4

\* The occurrences of an option are lists of values.
LEMMA OccurrencesTyped ==
  ASSUME run \in Run, NEW key
  PROVE  \E S : Occurrences(key) \in Seq(Seq(S))
<1>1. run.commandLine \in CommandLines
  BY DEF Run
<1>2. /\ run.commandLine.threads \in Seq(Seq(Int))
      /\ run.commandLine.paths \in [SinglePath \cup MultiPath -> Seq(Seq(Path))]
      /\ \A other \in DOMAIN run.commandLine.others :
           run.commandLine.others[other] \in Seq(Seq({"word"}))
  BY <1>1, CommandLinesTyped
<1>3. CASE key = "threads"
  <2>1. key \notin SinglePath \cup MultiPath /\ key \notin DOMAIN run.commandLine.others
    BY <1>1, <1>3, CommandLinesTyped DEF SinglePath, MultiPath, OtherKeys
  <2>2. Occurrences(key) = run.commandLine.threads
    BY <1>3, <2>1, Zenon DEF Occurrences
  <2> QED
    BY <1>2, <2>2
<1>4. CASE key # "threads" /\ key \in SinglePath \cup MultiPath
  <2>1. key \notin DOMAIN run.commandLine.others
    BY <1>1, <1>4, CommandLinesTyped DEF OtherKeys
  <2>2. Occurrences(key) = run.commandLine.paths[key]
    BY <1>4, <2>1, Zenon DEF Occurrences
  <2> QED
    BY <1>2, <1>4, <2>2
<1>5. CASE key # "threads" /\ key \notin SinglePath \cup MultiPath
           /\ key \in DOMAIN run.commandLine.others
  BY <1>2, <1>5, Zenon DEF Occurrences
<1>6. CASE key # "threads" /\ key \notin SinglePath \cup MultiPath
           /\ key \notin DOMAIN run.commandLine.others
  <2>1. Occurrences(key) = <<>>
    BY <1>6, Zenon DEF Occurrences
  <2> QED
    BY <2>1, EmptySeq
<1> QED
  BY <1>3, <1>4, <1>5, <1>6

LEMMA ResolveTyped ==
  ASSUME cwd \in Place, NEW path \in Path
  PROVE  Resolve(path) \in Place
<1> DEFINE names == Name \cup {"plugins", "resources/configuration_files", "plugins.conf"}
<1>1. path.names \in Seq(names) /\ cwd.names \in Seq(names)
  <2>1. path.names \in Seq(Name)
    BY DEF Path
  <2> QED
    BY <2>1, SeqMonotonic DEF Place
<1>2. cwd.names \o path.names \in Seq(names)
  BY <1>1, ConcatProperties
<1> QED
  BY <1>1, <1>2 DEF Resolve, Place

LEMMA PathsTyped ==
  ASSUME TypeOK, NEW paths \in Seq(Path)
  PROVE  toFilePaths(paths) \in Seq(Place)
<1>1. /\ Len(paths) \in Nat /\ DOMAIN paths = 1..Len(paths)
      /\ \A i \in 1..Len(paths) : paths[i] \in Path
  BY LenProperties, ElementOfSeq
<1>2. \A i \in 1..Len(paths) : Resolve(paths[i]) \in Place
  BY <1>1, ResolveTyped DEF TypeOK
<1> QED
  BY <1>1, <1>2, IsASeq DEF toFilePaths

\* What is registered on this platform, and for how many values.
LEMMA RegisteredKeys ==
  ASSUME run \in Run, options = AllOptions
  PROVE  /\ Registered = KeysOn(run.platform)
         /\ \A i \in DOMAIN options : options[i].takes = TakesOf(options[i].key)
<1>1. CASE run.platform = "linux"
  <2>1. Registers(AllOptions, Everywhere \cup LinuxSwitches)
    BY <1>1, WholeRegistry
  <2> QED
    BY <1>1, <2>1 DEF Registers, Registered, KeysIn, KeysOn, Everywhere, AsToTake
<1>2. CASE run.platform = "windows"
  <2>1. KeysIn(AllOptions) = Everywhere \cup WindowsSwitches /\ AsToTake(AllOptions)
    BY <1>2, WholeRegistry
  <2> QED
    BY <1>2, <2>1 DEF Registered, KeysIn, KeysOn, Everywhere, AsToTake
<1> QED
  BY <1>1, <1>2, CommandLineTyped

\* The parser lets a single-valued path through only with its one value.
LEMMA SingleValue ==
  ASSUME run \in Run, Parsed, NEW key \in SinglePath
  PROVE  /\ key \in parsed <=> Values(key) # <<>>
         /\ Values(key) \in Seq(Path) /\ Len(Values(key)) <= 1
<1> DEFINE typed == run.commandLine.paths[key]
<1>1. typed \in Seq(Seq(Path)) /\ Values(key) = FlattenSeq(typed)
  BY CommandLinesTyped DEF Run, Values
<1>2. Occurrences(key) = typed
  <2>1. key # "threads" /\ key \in SinglePath \cup MultiPath
        /\ key \notin DOMAIN run.commandLine.others
    BY CommandLineTyped DEF OtherKeys, SinglePath
  <2> QED
    BY <2>1, Zenon DEF Occurrences
<1>3. PICK i \in DOMAIN options : options[i].key = key
  BY RegisteredKeys DEF Parsed, Registered, KeysOn, FlextoolKeys, SinglePath
<1>4. options[i].takes = "one"
  <2>1. key \notin Flags \cup MultiPath
    BY DEF Flags, MultiPath, SinglePath
  <2> QED
    BY <1>3, <2>1, RegisteredKeys DEF Parsed, TakesOf
<1>5. Len(typed) <= 1 /\ \A k \in DOMAIN typed : Len(typed[k]) = 1
  BY <1>2, <1>3, <1>4 DEF Parsed, ParserAccepts, Fits
<1>6. key \in parsed <=> typed # <<>>
  <2>1. key # "threads" /\ key \notin DOMAIN run.commandLine.others
    BY CommandLineTyped DEF OtherKeys, SinglePath
  <2>2. key \in Registered
    BY <1>3 DEF Registered
  <2> QED
    BY <2>1, <2>2 DEF Parsed, Typed
<1> HIDE DEF typed
<1>7. CASE typed = <<>>
  <2>1. Values(key) = <<>>
    BY <1>1, <1>7, FlattenEmpty
  <2>2. <<>> \in Seq(Path) /\ Len(<<>>) = 0
    BY EmptySeq
  <2> QED
    BY <1>6, <1>7, <2>1, <2>2
<1>8. CASE typed # <<>>
  <2>1. Len(typed) = 1 /\ 1 \in DOMAIN typed
    BY <1>1, <1>5, <1>8, LenProperties, EmptySeq
  <2>2. Values(key) = typed[1] /\ Len(typed[1]) = 1 /\ typed[1] \in Seq(Path)
    BY <1>1, <1>5, <2>1, FlattenOne, ElementOfSeq
  <2> QED
    BY <1>6, <1>8, <2>2, EmptySeq
<1> QED
  BY <1>7, <1>8

LEMMA KeyToPathTyped ==
  ASSUME TypeOK, RegistryInv, NEW key \in SinglePath, NEW default \in Place
  PROVE  KeyToPath(key, default) \in Place
<1>1. CASE key \in parsed
  <2>1. Values(key) # <<>> /\ Values(key) \in Seq(Path)
    BY <1>1, SingleValue DEF TypeOK, RegistryInv
  <2>2. Values(key)[1] \in Path
    BY <2>1, ElementOfSeq, LenProperties, EmptySeq
  <2> QED
    BY <1>1, <2>2, ResolveTyped DEF KeyToPath, TypeOK
<1>2. CASE key \notin parsed
  BY <1>2 DEF KeyToPath
<1> QED
  BY <1>1, <1>2

\* Clamping gives the number between the bounds that is nearest.
LEMMA ClampNearest ==
  ASSUME NEW number \in Int, NEW low \in Int, NEW high \in Int, low <= high
  PROVE  /\ Clamp(number, low, high) \in low..high
         /\ \A n \in low..high :
              IF Clamp(number, low, high) <= number
              THEN n <= Clamp(number, low, high) \/ n > number
              ELSE n >= Clamp(number, low, high)
BY DEF Clamp

LEMMA AnswersTyped ==
  ASSUME TypeOK, RegistryInv
  PROVE  /\ outDir \in Place /\ pluginsDir \in Place /\ pluginsConfigFile \in Place
         /\ pathsToExtraPluginFiles \in Seq(Place) /\ scriptFiles \in Seq(Place)
         /\ threadsNum \in kMinThreadNum..kMaxThreadNum
<1> DEFINE names == Name \cup {"plugins", "resources/configuration_files", "plugins.conf"}
<1>1. /\ <<>> \in Seq(names) /\ <<"plugins">> \in Seq(names)
      /\ <<"resources/configuration_files", "plugins.conf">> \in Seq(names)
  OBVIOUS
<1>2. /\ dir_exe_ \in Place
      /\ [dir_exe_ EXCEPT !.names = <<"plugins">>] \in Place
      /\ [dir_exe_ EXCEPT !.names =
            <<"resources/configuration_files", "plugins.conf">>] \in Place
  BY <1>1 DEF dir_exe_, Place
<1>3. outDir \in Place /\ pluginsDir \in Place /\ pluginsConfigFile \in Place
  BY <1>2, KeyToPathTyped DEF outDir, pluginsDir, pluginsConfigFile, SinglePath
<1>4. pathsToExtraPluginFiles \in Seq(Place) /\ scriptFiles \in Seq(Place)
  <2>1. /\ cmdOptions_.pathsToExtraPluginFiles \in Seq(Path)
        /\ cmdOptions_.cling_scripts \in Seq(Path)
    BY DEF TypeOK
  <2> QED
    BY <2>1, PathsTyped DEF pathsToExtraPluginFiles, scriptFiles
<1>5. threadsNum \in kMinThreadNum..kMaxThreadNum
  <2>1. /\ cmdOptions_.thread_num_arg \in Seq(Int)
        /\ cmdOptions_.thread_num_arg # <<>> => cmdOptions_.thread_num_arg[1] \in Int
    <3>1. cmdOptions_.thread_num_arg \in Seq(Int)
      BY DEF TypeOK
    <3> QED
      BY <3>1, ElementOfSeq, LenProperties, EmptySeq
  <2> DEFINE number == IF cmdOptions_.thread_num_arg = <<>>
                       THEN kDefaultThreadNum ELSE cmdOptions_.thread_num_arg[1]
  <2>2. number \in Int
    BY <2>1 DEF kDefaultThreadNum
  <2>3. threadsNum = Clamp(number, kMinThreadNum, kMaxThreadNum)
    BY DEF threadsNum
  <2>4. kMinThreadNum \in Int /\ kMaxThreadNum \in Int /\ kMinThreadNum <= kMaxThreadNum
    BY DEF kMinThreadNum, kMaxThreadNum
  <2> HIDE DEF number
  <2> QED
    BY <2>2, <2>3, <2>4, ClampNearest
<1> QED
  BY <1>3, <1>4, <1>5

LEMMA TypeOKInit == Init => TypeOK
<1> SUFFICES ASSUME Init PROVE TypeOK
  OBVIOUS
<1>1. /\ <<>> \in Seq([key: Key, takes: Takes]) /\ <<>> \in Seq(Int) /\ <<>> \in Seq(Path)
      /\ <<>> \in Seq(Name \cup {"plugins", "resources/configuration_files", "plugins.conf"})
  OBVIOUS
<1>2. cwd \in Place
  BY <1>1 DEF Init, Place
<1>3. cmdOptions_ \in [thread_num_arg: Seq(Int), cling_scripts: Seq(Path),
                      pathsToExtraPluginFiles: Seq(Path)]
  BY <1>1 DEF Init
<1>4. run \in Run /\ options \in Seq([key: Key, takes: Takes]) /\ answers = {} /\ parsed = {} /\ unregistered = {}
  BY <1>1 DEF Init
<1>5. pc = "main" /\ threads = 0 /\ tracing = "unknown" /\ forwardsHelp = FALSE
  BY DEF Init
<1>6. 0 \in 0..kMaxThreadNum
  BY DEF kMaxThreadNum
<1> QED
  BY <1>2, <1>3, <1>4, <1>5, <1>6 DEF TypeOK

\* An environment asks.
LEMMA AnswerTyped ==
  ASSUME pc \in {"base", "plugin", "database", "clang", "cling"},
         NEW getter \in {"outDir"} \cup DOMAIN KeyOf, NEW places \in Seq(Place)
  PROVE  Answer(getter, places) \in
           [env: {"base", "plugin", "database", "clang", "cling"},
            getter: {"outDir"} \cup DOMAIN KeyOf, places: Seq(Place)]
BY DEF Answer

LEMMA TypeOKNext == TypeOK /\ RegistryInv /\ [Next]_vars => TypeOK'
<1> SUFFICES ASSUME TypeOK, RegistryInv, [Next]_vars PROVE TypeOK'
  OBVIOUS
<1> USE DEF answered
<1>1. DOMAIN KeyOf = {"pluginsDir", "pluginsConfigFile", "pathsToExtraPluginFiles", "scriptFiles"}
  BY DEF KeyOf
<1>2. UNCHANGED run => UNCHANGED Typed
  BY DEF Typed
<1>3. /\ outDir \in Place
      /\ <<outDir>> \in Seq(Place) /\ <<pluginsDir>> \in Seq(Place)
      /\ <<pluginsConfigFile>> \in Seq(Place)
      /\ pathsToExtraPluginFiles \in Seq(Place) /\ scriptFiles \in Seq(Place)
      /\ threadsNum \in 0..kMaxThreadNum
  BY AnswersTyped DEF kMinThreadNum, kMaxThreadNum
<1>4. CASE Construct
  BY <1>2, <1>4 DEF Construct, TypeOK, Final
<1>5. CASE RegisterOptions
  <2>1. CASE run.exeKnown
    <3>1. options' = AllOptions
      BY <1>5, <2>1 DEF RegisterOptions, RegistryInv, AllOptions, FlextoolOptions
    <3>2. AllOptions \in Seq([key: Key, takes: Takes])
      BY WholeRegistry, CommandLineTyped DEF Registers, Registration, TypeOK
    <3> QED
      BY <1>2, <1>5, <2>1, <3>1, <3>2 DEF RegisterOptions, TypeOK
  <2>2. CASE ~run.exeKnown
    BY <1>2, <1>5, <2>2 DEF RegisterOptions, FailInit, TypeOK, Final
  <2> QED
    BY <2>1, <2>2
<1>6. CASE ParseArguments
  <2>1. CASE ParserAccepts
    <3>1. Numbers \in Seq(Int)
      BY CommandLineTyped DEF TypeOK
    <3>2. Values("cling_scripts") \in Seq(Path) /\ Values("load_plugin") \in Seq(Path)
      BY CommandLineTyped DEF TypeOK, MultiPath
    <3> QED
      BY <1>2, <1>6, <2>1, <3>1, <3>2 DEF ParseArguments, TypeOK
  <2>2. CASE ~ParserAccepts
    BY <1>2, <1>6, <2>2 DEF ParseArguments, TypeOK, Final, ParseFailed
  <2> QED
    BY <2>1, <2>2
<1>7. CASE InitBase
  <2>1. answers' \subseteq [env: {"base", "plugin", "database", "clang", "cling"},
                           getter: {"outDir"} \cup DOMAIN KeyOf, places: Seq(Place)]
    BY <1>3, <1>7, AnswerTyped DEF InitBase, TypeOK
  <2> QED
    BY <1>2, <1>3, <1>7, <2>1 DEF InitBase, EnterDirectory, TypeOK, Final
<1>8. CASE InitPlugin
  <2>1. answers' \subseteq [env: {"base", "plugin", "database", "clang", "cling"},
                           getter: {"outDir"} \cup DOMAIN KeyOf, places: Seq(Place)]
    <3> DEFINE Typing == [env: {"base", "plugin", "database", "clang", "cling"},
                          getter: {"outDir"} \cup DOMAIN KeyOf, places: Seq(Place)]
    <3>1. /\ Answer("pluginsDir", <<pluginsDir>>) \in Typing
          /\ Answer("pluginsConfigFile", <<pluginsConfigFile>>) \in Typing
          /\ Answer("pathsToExtraPluginFiles", pathsToExtraPluginFiles) \in Typing
          /\ Answer("outDir", <<outDir>>) \in Typing
      BY <1>1, <1>3, <1>8, AnswerTyped DEF InitPlugin
    <3>2. answers \subseteq Typing
      BY DEF TypeOK
    <3> HIDE DEF Typing
    <3>3. answers' \subseteq Typing
      BY <1>8, <3>1, <3>2 DEF InitPlugin
    <3> QED
      BY <3>3 DEF Typing
  <2>2. pc' \in {"database", "aborted"}
    BY <1>8 DEF InitPlugin
  <2>3. UNCHANGED <<run, cwd, options, parsed, unregistered, cmdOptions_, threads,
                   tracing, forwardsHelp>>
    BY <1>8 DEF InitPlugin
  <2> QED
    BY <1>2, <2>1, <2>2, <2>3 DEF TypeOK, Final
<1>9. CASE CheckDatabase
  <2>1. answers' \subseteq [env: {"base", "plugin", "database", "clang", "cling"},
                           getter: {"outDir"} \cup DOMAIN KeyOf, places: Seq(Place)]
    BY <1>3, <1>9, AnswerTyped DEF CheckDatabase, TypeOK
  <2> QED
    BY <1>2, <1>9, <2>1 DEF CheckDatabase, TypeOK
<1>10. CASE InitClang
  <2>1. answers' \subseteq [env: {"base", "plugin", "database", "clang", "cling"},
                           getter: {"outDir"} \cup DOMAIN KeyOf, places: Seq(Place)]
    BY <1>3, <1>10, AnswerTyped DEF InitClang, TypeOK
  <2>2. pc' \in {"cling", "commands", "failed", "aborted"}
    BY <1>10 DEF InitClang
  <2>3. forwardsHelp' \in BOOLEAN
    <3>1. forwardsHelp' = (Count("help") > 0) \/ forwardsHelp' = forwardsHelp
      BY <1>10 DEF InitClang
    <3>2. forwardsHelp \in BOOLEAN
      BY DEF TypeOK
    <3>3. (Count("help") > 0) \in BOOLEAN
      BY SMT
    <3> QED
      BY <3>1, <3>2, <3>3, Zenon
  <2>4. UNCHANGED <<run, cwd, options, parsed, unregistered, cmdOptions_, threads, tracing>>
    BY <1>10 DEF InitClang
  <2> QED
    BY <1>2, <2>1, <2>2, <2>3, <2>4 DEF TypeOK, Final
<1>11. CASE InitCling
  <2>1. answers' \subseteq [env: {"base", "plugin", "database", "clang", "cling"},
                           getter: {"outDir"} \cup DOMAIN KeyOf, places: Seq(Place)]
    BY <1>1, <1>3, <1>11, AnswerTyped DEF InitCling, TypeOK
  <2> QED
    BY <1>2, <1>11, <2>1 DEF InitCling, TypeOK, Final
<1>12. CASE HandleCmdOptions
  BY <1>2, <1>12 DEF HandleCmdOptions, TypeOK, Final
<1>13. CASE UNCHANGED vars
  BY <1>2, <1>13 DEF vars, TypeOK
<1> QED
  BY <1>4, <1>5, <1>6, <1>7, <1>8, <1>9, <1>10, <1>11, <1>12, <1>13 DEF Next, Step, Finished

\* Every variable keeps its type; in particular no getter reads the value of an
\* option that was not typed.
THEOREM TypeCorrect == Spec => []TypeOK
BY TypeOKInit, TypeOKNext, RegistryInit, RegistryNext, PTL DEF Spec

-----------------------------------------------------------------------------
(* What the parser refuses.                                                *)

LEMMA AmbiguousKeys ==
  ASSUME run \in Run, options = AllOptions, NEW key
  PROVE  Ambiguous(key) <=> run.platform = "windows" /\ key = "disable-usb-keyboard-detect"
<1>1. CASE run.platform = "linux"
  BY <1>1, WholeRegistry DEF Ambiguous, Registers, Distinct
<1>2. CASE run.platform = "windows"
  BY <1>2, WholeRegistry DEF Ambiguous, WindowsSwitches
<1> QED
  BY <1>1, <1>2, CommandLineTyped

LEMMA SwitchTyped ==
  "disable-usb-keyboard-detect" \in Typed <=>
    "disable-usb-keyboard-detect" \in DOMAIN run.commandLine.others
BY DEF Typed, SinglePath, MultiPath

\* A registration fits the command line when its key is typed as it takes values.
FitsKey(key) ==
  /\ key \in Flags => ~NotAFlag(key)
  /\ key \in MultiPath => ~NoValue(key)
  /\ key \notin Flags \cup MultiPath => ~NotOneValue(key)

LEMMA FitsAsTyped ==
  ASSUME run \in Run, NEW option, option.takes = TakesOf(option.key)
  PROVE  Fits(option) <=> FitsKey(option.key)
<1> DEFINE key == option.key
           typed == Occurrences(key)
<1>1. CASE key \in Flags
  <2>1. option.takes = "none" /\ key \notin MultiPath
    BY <1>1 DEF TakesOf, Flags, MultiPath
  <2> QED
    BY <1>1, <2>1 DEF Fits, FitsKey, NotAFlag
<1>2. CASE key \in MultiPath
  <2>1. option.takes = "many" /\ key \notin Flags
    BY <1>2 DEF TakesOf, Flags, MultiPath
  <2> QED
    BY <1>2, <2>1 DEF Fits, FitsKey, NoValue
<1>3. CASE key \notin Flags \cup MultiPath
  <2>1. option.takes = "one"
    BY <1>3 DEF TakesOf
  <2>2. PICK S : typed \in Seq(Seq(S))
    BY OccurrencesTyped
  <2>3. Len(typed) \in Nat /\ DOMAIN typed = 1..Len(typed)
    BY <2>2, LenProperties
  <2>4. Fits(option) <=> Len(typed) <= 1 /\ \A i \in DOMAIN typed : Len(typed[i]) = 1
    BY <2>1 DEF Fits
  <2>5. FitsKey(key) <=> ~\E i \in DOMAIN typed : i > 1 \/ Len(typed[i]) # 1
    BY <1>3 DEF FitsKey, NotOneValue
  <2> HIDE DEF typed
  <2>6. Len(typed) <= 1 <=> ~\E i \in DOMAIN typed : i > 1
    <3>1. Len(typed) > 1 => 2 \in DOMAIN typed /\ 2 > 1
      BY <2>3
    <3> QED
      BY <2>3, <3>1
  <2> QED
    BY <2>4, <2>5, <2>6
<1> QED
  BY <1>1, <1>2, <1>3

LEMMA RefusalExact ==
  ASSUME run \in Run, options = AllOptions
  PROVE  ParserAccepts <=> ~RefusedCommandLine
<1>1. (\A key \in Typed : ~Ambiguous(key)) <=>
        ~(/\ run.platform = "windows"
          /\ "disable-usb-keyboard-detect" \in DOMAIN run.commandLine.others)
  BY AmbiguousKeys, SwitchTyped
<1>2. (\A i \in DOMAIN options : Fits(options[i])) <=> \A key \in KeysOn(run.platform) : FitsKey(key)
  <2>1. \A i \in DOMAIN options : Fits(options[i]) <=> FitsKey(options[i].key)
    BY RegisteredKeys, FitsAsTyped
  <2>2. KeysOn(run.platform) = {options[i].key : i \in DOMAIN options}
    BY RegisteredKeys DEF Registered
  <2> QED
    BY <2>1, <2>2
<1>3. Flags \cup MultiPath \subseteq KeysOn(run.platform)
  BY DEF Flags, MultiPath, KeysOn, FlextoolKeys
<1>4. (\A key \in KeysOn(run.platform) : FitsKey(key)) <=>
        ~(\/ \E key \in Flags : NotAFlag(key)
          \/ \E key \in MultiPath : NoValue(key)
          \/ \E key \in KeysOn(run.platform) \ (Flags \cup MultiPath) : NotOneValue(key))
  <2>1. ASSUME \A key \in KeysOn(run.platform) : FitsKey(key)
        PROVE  /\ \A key \in Flags : ~NotAFlag(key)
               /\ \A key \in MultiPath : ~NoValue(key)
               /\ \A key \in KeysOn(run.platform) \ (Flags \cup MultiPath) : ~NotOneValue(key)
    BY <1>3, <2>1, Zenon DEF FitsKey
  <2>2. ASSUME /\ \A key \in Flags : ~NotAFlag(key)
               /\ \A key \in MultiPath : ~NoValue(key)
               /\ \A key \in KeysOn(run.platform) \ (Flags \cup MultiPath) : ~NotOneValue(key)
        PROVE  \A key \in KeysOn(run.platform) : FitsKey(key)
    BY <2>2, Zenon DEF FitsKey
  <2> QED
    BY <2>1, <2>2, Zenon
<1>5. (\A i \in DOMAIN Numbers : Numbers[i] \in MinInt..MaxInt) <=>
        ~\E i \in DOMAIN Numbers : Numbers[i] \notin MinInt..MaxInt
  OBVIOUS
<1> QED
  BY <1>1, <1>2, <1>4, <1>5, Zenon DEF ParserAccepts, RefusedCommandLine

\* The parser stops exactly the command lines of RefusedCommandLine, whatever
\* else is typed: among the keys that are registered the one collision
\* is the switch that is registered twice on Windows.
THEOREM ParserRefuses == Spec => []RefusesExactly
<1>1. TypeOK /\ RegistryInv => RefusesExactly
  <2> SUFFICES ASSUME TypeOK, RegistryInv PROVE RefusesExactly
    OBVIOUS
  <2>1. run \in Run
    BY DEF TypeOK
  <2>2. ASSUME pc \in ParseFailed PROVE RefusedCommandLine
    BY <2>1, <2>2, RefusalExact DEF RegistryInv
  <2>3. ASSUME Running PROVE ~RefusedCommandLine
    BY <2>1, <2>3, RefusalExact DEF RegistryInv, Running, Environments, Parsed
  <2> QED
    BY <2>2, <2>3 DEF RefusesExactly
<1> QED
  BY <1>1, TypeOKInit, TypeOKNext, RegistryInit, RegistryNext, PTL DEF Spec

-----------------------------------------------------------------------------
(* The number of threads.                                                  *)

ThreadsInv == threads # 0 => threads = threadsNum

LEMMA ThreadsNext == RegistryInv /\ ThreadsInv /\ [Next]_vars => ThreadsInv'
<1> SUFFICES ASSUME RegistryInv, ThreadsInv, [Next]_vars PROVE ThreadsInv'
  OBVIOUS
<1> USE DEF answered, ThreadsInv, threadsNum
<1>1. CASE UNCHANGED <<threads, cmdOptions_>>
  BY <1>1
<1>2. CASE Construct \/ RegisterOptions
  BY <1>1, <1>2 DEF Construct, RegisterOptions
<1>3. CASE ParseArguments
  <2>1. threads = 0 /\ UNCHANGED threads
    BY <1>3 DEF ParseArguments, RegistryInv
  <2> QED
    BY <2>1
<1>4. CASE InitBase
  <2>1. threads' = threadsNum /\ UNCHANGED cmdOptions_
    BY <1>4 DEF InitBase
  <2> QED
    BY <2>1
<1>5. CASE InitPlugin \/ CheckDatabase \/ InitClang
  BY <1>1, <1>5 DEF InitPlugin, CheckDatabase, InitClang
<1>6. CASE InitCling \/ HandleCmdOptions \/ UNCHANGED vars
  BY <1>1, <1>6 DEF InitCling, HandleCmdOptions, vars
<1> QED
  BY <1>2, <1>3, <1>4, <1>5, <1>6 DEF Next, Step, Finished

\* base gets the number of threads in 1..100 that is nearest to the one typed,
\* for every int and every command line.
THEOREM ThreadsNearest == Spec => []NearestThreads
<1>1. Init => ThreadsInv
  BY DEF Init, ThreadsInv
<1>2. TypeOK /\ RegistryInv /\ ThreadsInv => NearestThreads
  <2> SUFFICES ASSUME TypeOK, RegistryInv, ThreadsInv, threads # 0
               PROVE  /\ threads \in kMinThreadNum..kMaxThreadNum
                      /\ IF Numbers = <<>>
                         THEN threads = kDefaultThreadNum
                         ELSE \A n \in kMinThreadNum..kMaxThreadNum :
                                IF threads <= Numbers[1]
                                THEN n <= threads \/ n > Numbers[1]
                                ELSE n >= threads
    BY DEF NearestThreads
  <2> DEFINE typed == Numbers
  <2>1. typed \in Seq(Int)
    BY CommandLineTyped DEF TypeOK
  <2>2. threads = Clamp(IF typed = <<>> THEN kDefaultThreadNum ELSE typed[1],
                        kMinThreadNum, kMaxThreadNum)
    BY DEF ThreadsInv, threadsNum, RegistryInv, Parsed
  <2>3. /\ kMinThreadNum \in Int /\ kMaxThreadNum \in Int /\ kMinThreadNum <= kMaxThreadNum
        /\ kDefaultThreadNum \in kMinThreadNum..kMaxThreadNum
    BY DEF kMinThreadNum, kMaxThreadNum, kDefaultThreadNum
  <2> HIDE DEF typed
  <2>4. CASE typed = <<>>
    BY <2>2, <2>3, <2>4 DEF Clamp, typed
  <2>5. CASE typed # <<>>
    <3>1. typed[1] \in Int /\ threads = Clamp(typed[1], kMinThreadNum, kMaxThreadNum)
      BY <2>1, <2>2, <2>5, ElementOfSeq, LenProperties, EmptySeq
    <3>2. /\ threads \in kMinThreadNum..kMaxThreadNum
          /\ \A n \in kMinThreadNum..kMaxThreadNum :
               IF threads <= typed[1] THEN n <= threads \/ n > typed[1] ELSE n >= threads
      BY <2>3, <3>1, ClampNearest
    <3> QED
      BY <2>5, <3>2 DEF typed
  <2> QED
    BY <2>4, <2>5
<1> QED
  BY <1>1, <1>2, ThreadsNext, TypeOKInit, TypeOKNext, RegistryInit, RegistryNext, PTL DEF Spec

-----------------------------------------------------------------------------
(* Directories.  Once base has gone to the output directory nothing moves  *)
(* the process again; what is relative is read after that, and the check   *)
(* of the plugin environment makes outDir() a fixed point.                 *)

\* The places of an answer, seen from the current directory.
Located(answer) ==
  LET typed == Values(KeyOf[answer.getter])
  IN IF typed = <<>>
     THEN \A i \in DOMAIN answer.places : answer.places[i].root = "exe"
     ELSE \A i \in DOMAIN typed : answer.places[i] = Resolve(typed[i])

AfterBase == Environments \ {"base"}
AfterCheck == Environments \ {"base", "plugin"}

PlaceInv ==
  /\ pc = "base" => answers = {}
  /\ pc \in AfterBase => \A a \in answers : a.getter = "outDir" => a.places = <<cwd>>
  /\ pc \in AfterCheck => cwd = outDir
  /\ \A a \in answers : a.getter # "outDir" =>
       Located(a) /\ \A b \in answers : b.env = "base" => b.places = <<cwd>>
  /\ \A a \in answers : a.env = "base" => a.getter = "outDir"

LEMMA PlaceInit == Init => PlaceInv
BY DEF Init, PlaceInv, AfterBase, AfterCheck, Environments

\* What the getters return does not depend on what was answered.
LEMMA GettersKept ==
  ASSUME UNCHANGED <<run, cwd, parsed, cmdOptions_>>
  PROVE  /\ UNCHANGED outDir
         /\ \A path : UNCHANGED Resolve(path)
         /\ \A answer : Located(answer)' <=> Located(answer)
<1>1. \A path : UNCHANGED Resolve(path)
  BY DEF Resolve
<1>2. UNCHANGED outDir
  BY <1>1 DEF outDir, KeyToPath, Values
<1>3. UNCHANGED KeyOf
  BY DEF KeyOf
<1>4. \A answer : Located(answer)' <=> Located(answer)
  BY <1>1, <1>3 DEF Located, Values
<1> QED
  BY <1>1, <1>2, <1>4

\* An option with one value.
LEMMA SingleLocated ==
  ASSUME TypeOK, Parsed, NEW getter \in {"pluginsDir", "pluginsConfigFile"},
         NEW default, default.root = "exe",
         NEW places, places = <<KeyToPath(KeyOf[getter], default)>>
  PROVE  Located(Answer(getter, places))
<1> DEFINE key == KeyOf[getter]
           typed == Values(key)
<1>1. key \in SinglePath /\ run \in Run
  BY DEF KeyOf, SinglePath, TypeOK
<1>2. typed \in Seq(Path) /\ Len(typed) <= 1 /\ (key \in parsed <=> typed # <<>>)
  BY <1>1, SingleValue
<1>3. DOMAIN typed = 1..Len(typed) /\ Len(typed) \in Nat
  BY <1>2, LenProperties
<1>4. key \in parsed <=> typed # <<>>
  BY <1>2
<1>5. Answer(getter, places).getter = getter /\ Answer(getter, places).places = places
  BY DEF Answer
<1>6. places = <<KeyToPath(key, default)>>
  OBVIOUS
<1> HIDE DEF key
<1>7. CASE typed = <<>>
  <2>1. places = <<default>>
    BY <1>4, <1>6, <1>7 DEF KeyToPath
  <2> QED
    BY <1>5, <1>7, <2>1 DEF Located, key
<1>8. CASE typed # <<>>
  <2>1. places = <<Resolve(typed[1])>>
    BY <1>4, <1>6, <1>8 DEF KeyToPath
  <2>2. \A i \in DOMAIN typed : i = 1
    BY <1>2, <1>3
  <2> QED
    BY <1>5, <1>8, <2>1, <2>2 DEF Located, key
<1> QED
  BY <1>7, <1>8

\* An option with many.
LEMMA MultiLocated ==
  ASSUME NEW getter, NEW places,
         places = toFilePaths(Values(KeyOf[getter]))
  PROVE  Located(Answer(getter, places))
<1>1. Answer(getter, places).getter = getter /\ Answer(getter, places).places = places
  BY DEF Answer
<1> DEFINE typed == Values(KeyOf[getter])
<1>2. CASE typed = <<>>
  <2>1. DOMAIN places = {}
    BY <1>2 DEF toFilePaths
  <2> QED
    BY <1>1, <1>2, <2>1 DEF Located
<1>3. CASE typed # <<>>
  BY <1>1, <1>3 DEF Located, toFilePaths
<1> QED
  BY <1>2, <1>3

LEMMA PlaceNext == TypeOK /\ RegistryInv /\ PlaceInv /\ [Next]_vars => PlaceInv'
<1> SUFFICES ASSUME TypeOK, RegistryInv, PlaceInv, [Next]_vars PROVE PlaceInv'
  OBVIOUS
<1> USE DEF answered, Environments, AfterBase, AfterCheck, ParseFailed
\* A step before base asks.
<1>1. CASE answers' = {} /\ pc' \notin AfterBase
  BY <1>1 DEF PlaceInv
<1>2. CASE Construct \/ RegisterOptions
  <2>1. UNCHANGED answers /\ pc' \notin AfterBase /\ pc \in {"main", "register"}
    BY <1>2 DEF Construct, RegisterOptions, FailInit
  <2> QED
    BY <1>1, <2>1 DEF RegistryInv
<1>3. CASE ParseArguments
  <2>1. UNCHANGED answers /\ pc' \notin AfterBase /\ pc = "parse"
    BY <1>3 DEF ParseArguments
  <2> QED
    BY <1>1, <2>1 DEF RegistryInv
<1>4. CASE InitBase
  <2> DEFINE answer == Answer("outDir", <<outDir>>)
  <2>1. answers' = {answer} /\ answer.getter = "outDir" /\ answer.places = <<outDir>>
    BY <1>4 DEF InitBase, PlaceInv, Answer
  <2>2. (cwd' = outDir /\ pc' = "plugin") \/ pc' = "failed"
    BY <1>4 DEF InitBase, EnterDirectory
  <2> HIDE DEF answer
  <2> QED
    BY <2>1, <2>2 DEF PlaceInv
\* A step that adds answers and moves nowhere.
<1>5. CASE /\ pc \in AfterBase
           /\ pc' \in AfterCheck \cup {"failed", "aborted"}
           /\ pc' \in AfterCheck => cwd = outDir
           /\ run' = run /\ cwd' = cwd /\ parsed' = parsed /\ cmdOptions_' = cmdOptions_
           /\ \A a \in answers' :
                \/ a \in answers
                \/ /\ a.env # "base"
                   /\ a.getter = "outDir" => a.places = <<outDir>>
                   /\ a.getter # "outDir" => Located(a)
  <2>1. UNCHANGED outDir /\ \A a : Located(a)' <=> Located(a)
    BY <1>5, GettersKept
  <2>2. \A a \in answers : a.env = "base" => a.getter = "outDir" /\ a.places = <<cwd>>
    BY <1>5 DEF PlaceInv
  <2>3. \A a \in answers : a.getter # "outDir" => Located(a)
    BY DEF PlaceInv
  <2>4. pc' \in AfterBase => \A a \in answers' : a.getter = "outDir" => a.places = <<cwd'>>
    BY <1>5 DEF PlaceInv
  <2>5. pc' \in AfterCheck => cwd' = outDir'
    BY <1>5, <2>1
  <2>6. \A a \in answers' : a.getter # "outDir" => Located(a)'
    BY <1>5, <2>1, <2>3
  <2>7. \A a \in answers' : a.env = "base" => a.getter = "outDir" /\ a.places = <<cwd'>>
    BY <1>5, <2>2
  <2>8. pc' # "base"
    BY <1>5
  <2> QED
    BY <2>4, <2>5, <2>6, <2>7, <2>8 DEF PlaceInv
<1>6. CASE InitPlugin
  <2> DEFINE dir == Answer("pluginsDir", <<pluginsDir>>)
             file == Answer("pluginsConfigFile", <<pluginsConfigFile>>)
             extra == Answer("pathsToExtraPluginFiles", pathsToExtraPluginFiles)
             out == Answer("outDir", <<outDir>>)
  <2>1. Parsed
    BY <1>6 DEF InitPlugin, RegistryInv
  <2>2. Located(dir) /\ Located(file)
    BY <2>1, SingleLocated DEF KeyOf, pluginsDir, pluginsConfigFile, dir_exe_
  <2>3. Located(extra)
    BY <2>1, MultiLocated DEF Parsed, KeyOf, pathsToExtraPluginFiles
  <2>4. /\ dir.env = "plugin" /\ file.env = "plugin" /\ extra.env = "plugin" /\ out.env = "plugin"
        /\ dir.getter = "pluginsDir" /\ file.getter = "pluginsConfigFile"
        /\ extra.getter = "pathsToExtraPluginFiles"
        /\ out.getter = "outDir" /\ out.places = <<outDir>>
    BY <1>6 DEF InitPlugin, Answer
  <2>5. /\ answers' = answers \cup {dir, file, extra, out}
        /\ run' = run /\ cwd' = cwd /\ parsed' = parsed /\ cmdOptions_' = cmdOptions_
        /\ pc = "plugin"
        /\ pc' = "aborted" \/ (pc' = "database" /\ cwd = outDir)
    BY <1>6 DEF InitPlugin, OutDirIsCurrent
  <2> HIDE DEF dir, file, extra, out
  <2> QED
    BY <1>5, <2>2, <2>3, <2>4, <2>5
<1>7. CASE CheckDatabase \/ InitClang
  <2> DEFINE out == Answer("outDir", <<outDir>>)
  <2>1. out.env # "base" /\ out.getter = "outDir" /\ out.places = <<outDir>>
    BY <1>7 DEF CheckDatabase, InitClang, Answer
  <2>2. /\ answers' = answers \cup {out}
        /\ run' = run /\ cwd' = cwd /\ parsed' = parsed /\ cmdOptions_' = cmdOptions_
        /\ pc \in AfterCheck
        /\ pc' \in AfterCheck \cup {"failed", "aborted"}
    BY <1>7 DEF CheckDatabase, InitClang
  <2>3. cwd = outDir
    BY <2>2 DEF PlaceInv
  <2> HIDE DEF out
  <2> QED
    BY <1>5, <2>1, <2>2, <2>3
<1>8. CASE InitCling
  <2> DEFINE scripts == Answer("scriptFiles", scriptFiles)
  <2>1. Parsed
    BY <1>8 DEF InitCling, RegistryInv
  <2>2. Located(scripts)
    BY <2>1, MultiLocated DEF Parsed, KeyOf, scriptFiles
  <2>3. scripts.env = "cling" /\ scripts.getter = "scriptFiles"
    BY <1>8 DEF InitCling, Answer
  <2>4. /\ answers' = answers \cup {scripts}
        /\ run' = run /\ cwd' = cwd /\ parsed' = parsed /\ cmdOptions_' = cmdOptions_
        /\ pc = "cling"
        /\ pc' \in {"commands", "failed", "aborted"}
    BY <1>8 DEF InitCling
  <2>5. cwd = outDir
    BY <2>4 DEF PlaceInv
  <2> HIDE DEF scripts
  <2> QED
    BY <1>5, <2>2, <2>3, <2>4, <2>5
<1>9. CASE HandleCmdOptions
  <2>1. /\ answers' = answers \cup {}
        /\ run' = run /\ cwd' = cwd /\ parsed' = parsed /\ cmdOptions_' = cmdOptions_
        /\ pc = "commands" /\ pc' = "done"
    BY <1>9 DEF HandleCmdOptions
  <2>2. cwd = outDir
    BY <2>1 DEF PlaceInv
  <2> QED
    BY <1>5, <2>1, <2>2
<1>10. CASE UNCHANGED vars
  <2>1. UNCHANGED <<pc, answers, run, cwd, parsed, cmdOptions_>>
    BY <1>10 DEF vars
  <2>2. UNCHANGED outDir /\ \A a : Located(a)' <=> Located(a)
    BY <2>1, GettersKept
  <2> QED
    BY <2>1, <2>2 DEF PlaceInv
<1> QED
  BY <1>2, <1>3, <1>4, <1>6, <1>7, <1>8, <1>9, <1>10 DEF Next, Step, Finished

\* --outdir is relative to the start, everything else that is relative to the
\* output directory, for all paths and all combinations of options.
THEOREM PathsRelativeTo == Spec => []TwoBases
<1>1. PlaceInv => TwoBases
  <2> SUFFICES ASSUME PlaceInv, NEW first \in answers, NEW answer \in answers,
                      first.env = "base", answer.getter \in DOMAIN KeyOf
               PROVE  LET typed == Values(KeyOf[answer.getter])
                          base == first.places[1]
                      IN IF typed = <<>>
                         THEN \A i \in DOMAIN answer.places : answer.places[i].root = "exe"
                         ELSE \A i \in DOMAIN typed :
                                answer.places[i] =
                                  IF typed[i].absolute
                                  THEN [root |-> "absolute", names |-> typed[i].names]
                                  ELSE [base EXCEPT !.names = @ \o typed[i].names]
    BY DEF TwoBases
  <2>1. answer.getter # "outDir"
    BY DEF KeyOf
  <2>2. Located(answer) /\ first.places = <<cwd>>
    BY <2>1 DEF PlaceInv
  <2>3. first.places[1] = cwd
    BY <2>2
  <2> QED
    BY <2>2, <2>3 DEF Located, Resolve
<1> QED
  BY <1>1, PlaceInit, PlaceNext, TypeOKInit, TypeOKNext, RegistryInit, RegistryNext, PTL DEF Spec

\* All calls of outDir() agree once the plugin environment is initialised.
THEOREM OutDirAgreed == Spec => []OneOutDir
<1>1. PlaceInv => OneOutDir
  BY DEF PlaceInv, OneOutDir, AfterBase, Environments
<1> QED
  BY <1>1, PlaceInit, PlaceNext, TypeOKInit, TypeOKNext, RegistryInit, RegistryNext, PTL DEF Spec

-----------------------------------------------------------------------------
(* What is left for libtooling.                                            *)

HelpInv == pc \in {"cling", "commands", "done"} => (forwardsHelp <=> "help" \in parsed)

LEMMA HelpNext == HelpInv /\ [Next]_vars => HelpInv'
<1> SUFFICES ASSUME HelpInv, [Next]_vars PROVE HelpInv'
  OBVIOUS
<1> USE DEF answered, HelpInv
<1>1. CASE pc' \notin {"cling", "commands", "done"}
  BY <1>1
<1>2. CASE Construct \/ RegisterOptions \/ ParseArguments
  BY <1>1, <1>2 DEF Construct, RegisterOptions, FailInit, ParseArguments
<1>3. CASE InitBase \/ InitPlugin \/ CheckDatabase
  BY <1>1, <1>3 DEF InitBase, InitPlugin, CheckDatabase
<1>4. CASE InitClang
  <2>1. CASE forwardsHelp' = (Count("help") > 0)
    <3>1. UNCHANGED parsed
      BY <1>4 DEF InitClang
    <3>2. CASE "help" \in parsed
      <4>1. Count("help") > 0
        BY <3>2 DEF Count
      <4>2. forwardsHelp' = TRUE
        BY <2>1, <4>1, Zenon
      <4> QED
        BY <3>1, <3>2, <4>2
    <3>3. CASE "help" \notin parsed
      <4>1. ~(Count("help") > 0)
        BY <3>3 DEF Count
      <4>2. ~forwardsHelp'
        BY <2>1, <4>1, Zenon
      <4> QED
        BY <3>1, <3>3, <4>2
    <3> QED
      BY <3>2, <3>3
  <2>2. CASE pc' \in {"failed", "aborted"}
    BY <1>1, <2>2
  <2> QED
    BY <1>4, <2>1, <2>2 DEF InitClang
<1>5. CASE InitCling \/ HandleCmdOptions
  <2>1. pc \in {"cling", "commands"} /\ UNCHANGED <<forwardsHelp, parsed>>
    BY <1>5 DEF InitCling, HandleCmdOptions
  <2> QED
    BY <2>1
<1>6. CASE UNCHANGED vars
  BY <1>6 DEF vars
<1> QED
  BY <1>2, <1>3, <1>4, <1>5, <1>6 DEF Next, Step, Finished

\* No registered key takes an option away from clang, and --help is forwarded
\* exactly when it was typed.
THEOREM PassedThrough == Spec => []ClangOptionsPassThrough
<1>1. Init => HelpInv
  BY DEF Init, HelpInv
<1>2. TypeOK /\ RegistryInv /\ HelpInv => ClangOptionsPassThrough
  <2> SUFFICES ASSUME TypeOK, RegistryInv, HelpInv PROVE ClangOptionsPassThrough
    OBVIOUS
  <2>1. ASSUME Parsed
        PROVE  ForLibtooling \cap Registered = {} /\ "help" \in Registered
    <3>1. run \in Run /\ options = AllOptions
      BY <2>1 DEF Parsed, TypeOK
    <3>2. Registered = Everywhere \cup LinuxSwitches \/ Registered = Everywhere \cup WindowsSwitches
      BY <3>1, RegisteredKeys DEF KeysOn, Everywhere
    <3>3. /\ "help" \in Everywhere
          /\ ForLibtooling \cap Everywhere = {}
          /\ ForLibtooling \cap LinuxSwitches = {}
          /\ ForLibtooling \cap WindowsSwitches = {}
      BY DEF ForLibtooling, Everywhere, FlextoolKeys, EverywhereSwitches, LinuxSwitches,
         WindowsSwitches
    <3> QED
      BY <3>2, <3>3
  <2>2. ASSUME Running PROVE Typed \cap ForLibtooling \subseteq unregistered
    <3>1. Parsed
      BY <2>2 DEF Running, RegistryInv, Environments
    <3> QED
      BY <2>1, <3>1 DEF Parsed
  <2>3. ASSUME pc \in {"cling", "commands", "done"} PROVE forwardsHelp <=> "help" \in Typed
    <3>1. Parsed
      BY <2>3 DEF RegistryInv, Environments
    <3>2. "help" \in parsed <=> "help" \in Typed
      BY <2>1, <3>1 DEF Parsed
    <3> QED
      BY <2>3, <3>2 DEF HelpInv
  <2> QED
    BY <2>2, <2>3 DEF ClangOptionsPassThrough
<1> QED
  BY <1>1, <1>2, HelpNext, TypeOKInit, TypeOKNext, RegistryInit, RegistryNext, PTL DEF Spec

=============================================================================
