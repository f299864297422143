-------------------------- MODULE UartConfigProofs --------------------------
(***************************************************************************)
(* Theorems about UartConfig, for all ports and all numbers a client may   *)
(* put into a request.                                                     *)
(***************************************************************************)
EXTENDS UartConfig, TLAPS

\* The shape of the state.  Settings stay settings although options are cut and
\* merged; the argument of a request says for each option a number or nothing.
Typed ==
  /\ cnf \in [Ports -> Settings]
  /\ hw \in [Ports -> Settings]
  /\ resp \in [Ports -> Settings]
  /\ cmd \in [Ports -> [Options -> Nat \cup {Unset}]]
  /\ unsure \in [Ports -> SUBSET Options]

\* An answer with supported settings shows all of uart->cnf, also where the hardware
\* differs: what refused requests leave standing.
Stored == \A p \in Ports : Supported(resp[p]) => resp[p] = cnf[p]

Inv == Typed /\ AlwaysReadable /\ Stored /\ OnlyFailedOptionsDiffer

-----------------------------------------------------------------------------
(* The operators of a request.                                             *)

\* The cut to the bit-fields leaves a natural number, which is not Unset.
LEMMA FieldType ==
  ASSUME NEW o \in Options, NEW v \in Nat
  PROVE  Field(o, v) \in Nat /\ Field(o, v) # Unset
<1>1. v % 4 \in Nat
  BY SMTT(60)
<1> QED BY <1>1, ValueAssumption DEF Field

\* Parsing keeps apart the options that are named and those that are not.
LEMMA ParsedType ==
  ASSUME NEW arg \in [Options -> Nat \cup {Unset}]
  PROVE  /\ Parsed(arg) \in [Options -> Nat \cup {Unset}]
         /\ \A o \in Options : (Parsed(arg)[o] = Unset) <=> (arg[o] = Unset)
<1>1. ASSUME NEW o \in Options
      PROVE  /\ Parsed(arg)[o] \in Nat \cup {Unset}
             /\ (Parsed(arg)[o] = Unset) <=> (arg[o] = Unset)
  <2>1. Parsed(arg)[o] = IF arg[o] = Unset THEN Unset ELSE Field(o, arg[o])
    BY DEF Parsed
  <2>2. CASE arg[o] = Unset
    BY <2>1, <2>2
  <2>3. CASE arg[o] # Unset
    BY <2>1, <2>3, FieldType
  <2> QED BY <2>2, <2>3
<1> QED BY <1>1 DEF Parsed

\* Merging a request into settings gives settings, and keeps what is not named.
LEMMA MergedType ==
  ASSUME NEW c \in Settings, NEW new \in [Options -> Nat \cup {Unset}]
  PROVE  /\ Merged(c, new) \in Settings
         /\ \A o \in Options : new[o] = Unset => Merged(c, new)[o] = c[o]
BY DEF Merged, Settings

LEMMA DefaultSupported == Default \in Settings /\ Supported(Default)
<1>1. /\ Default["WL"] = 1 /\ Default["PAR"] = 0
      /\ Default["SB"] = 1 /\ Default["BR"] = 115200
  BY DEF Default, Options, Word8
<1>2. \A o \in Options : Default[o] \in Nat
  BY <1>1 DEF Options
<1> DEFINE value(o) == CASE o = "WL" -> Word8 [] o = "PAR" -> 0
                        [] o = "SB" -> 1 [] o = "BR" -> 115200
<1>3. Default = [o \in Options |-> value(o)]
  BY DEF Default
<1> HIDE DEF value
<1>4. Default \in Settings
  BY <1>2, <1>3 DEF Settings
<1> QED BY <1>1, <1>4 DEF Supported, Word7, Word8

-----------------------------------------------------------------------------
(* The steps.                                                              *)

LEMMA ConfigInit == Init => Inv
<1> SUFFICES ASSUME Init PROVE Inv
  OBVIOUS
<1>1. Typed
  BY DefaultSupported DEF Init, Typed
<1>2. AlwaysReadable /\ Stored /\ OnlyFailedOptionsDiffer
  BY DefaultSupported DEF Init, AlwaysReadable, Stored, OnlyFailedOptionsDiffer
<1> QED BY <1>1, <1>2 DEF Inv

\* Every step is a request whose argument has the shape ParsedType asks for.
LEMMA NextIsConfigure ==
  ASSUME Next
  PROVE  \E p \in Ports, arg \in [Options -> Nat \cup {Unset}] : Configure(p, arg)
<1>1. PICK p \in Ports, r \in Rates \cup {Unset}, a \in Arg :
             Configure(p, [o \in Options |-> IF o = "BR" THEN r ELSE a[o]])
  BY DEF Next
<1> DEFINE arg == [o \in Options |-> IF o = "BR" THEN r ELSE a[o]]
<1>2. arg \in [Options -> Nat \cup {Unset}]
  BY ValueAssumption DEF Arg
<1> QED BY <1>1, <1>2

\* What uart_param_config leaves in the hardware, option by option, is new or old.
\* After a failure only named options, and those in doubt before, can be old.
LEMMA ParamConfigStep ==
  ASSUME Inv, NEW p \in Ports, NEW new \in Settings, NEW named \in SUBSET Options,
         Supported(new), \A o \in Options \ named : new[o] = cnf[p][o],
         ParamConfig(p, new, named)
  PROVE  /\ hw' = [hw EXCEPT ![p] = hw'[p]] /\ hw'[p] \in Settings /\ Supported(hw'[p])
         /\ unsure' \in [Ports -> SUBSET Options]
         /\ \A q \in Ports \ {p} : unsure'[q] = unsure[q]
         /\ \A o \in Options \ unsure'[p] : hw'[p][o] = new[o]
<1>1. /\ hw[p] \in Settings /\ Supported(hw[p])
      /\ hw \in [Ports -> Settings] /\ unsure \in [Ports -> SUBSET Options]
      /\ \A o \in Options \ unsure[p] : hw[p][o] = cnf[p][o]
  BY DEF Inv, Typed, AlwaysReadable, OnlyFailedOptionsDiffer
<1>2. CASE hw' = [hw EXCEPT ![p] = new] /\ unsure' = [unsure EXCEPT ![p] = {}]
  BY <1>1, <1>2
<1>3. ASSUME NEW done \in SUBSET Options,
             hw' = [hw EXCEPT ![p] = [o \in Options |-> IF o \in done THEN new[o] ELSE @[o]]],
             unsure' = [unsure EXCEPT ![p] = @ \cup named]
      PROVE  /\ hw' = [hw EXCEPT ![p] = hw'[p]] /\ hw'[p] \in Settings /\ Supported(hw'[p])
             /\ unsure' \in [Ports -> SUBSET Options]
             /\ \A q \in Ports \ {p} : unsure'[q] = unsure[q]
             /\ \A o \in Options \ unsure'[p] : hw'[p][o] = new[o]
  <2> DEFINE mix == [o \in Options |-> IF o \in done THEN new[o] ELSE hw[p][o]]
  <2>1. hw' = [hw EXCEPT ![p] = mix]
    BY <1>3
  <2>2. mix \in Settings
    BY <1>1 DEF Settings
  <2>3. \A o \in Options : mix[o] = new[o] \/ mix[o] = hw[p][o]
    OBVIOUS
  <2>4. Supported(mix)
    BY <1>1, <2>3 DEF Supported, Options
  <2>5. ASSUME NEW o \in Options \ unsure'[p] PROVE mix[o] = new[o]
    BY <1>1, <1>3, <2>3, <2>5
  <2> HIDE DEF mix
  <2>6. hw'[p] = mix
    BY <1>1, <2>1
  <2> QED BY <1>1, <1>3, <2>1, <2>2, <2>4, <2>5, <2>6
<1> QED BY <1>2, <1>3 DEF ParamConfig

\* What a request does to the settings of its port.
LEMMA ConfigureStep ==
  ASSUME Inv, NEW p \in Ports, NEW arg \in [Options -> Nat \cup {Unset}], Configure(p, arg)
  PROVE  /\ Inv'
         /\ \A q \in Ports : \A o \in Options : cnf'[q][o] # cnf[q][o] => cmd'[q][o] # Unset
<1> DEFINE new == Merged(cnf[p], Parsed(arg))
<1>1. /\ new \in Settings
      /\ \A o \in Options : arg[o] = Unset => new[o] = cnf[p][o]
  BY ParsedType, MergedType DEF Inv, Typed
<1>2. /\ cmd' = [cmd EXCEPT ![p] = arg]
      /\ resp' = [resp EXCEPT ![p] = new]
      /\ \/ /\ Supported(new)
            /\ cnf' = [cnf EXCEPT ![p] = new]
            /\ ParamConfig(p, new, Named(arg))
         \/ ~Supported(new) /\ cnf' = cnf /\ hw' = hw /\ unsure' = unsure
  BY DEF Configure, Accepted
<1> HIDE DEF new
<1>3. CASE ~Supported(new) /\ cnf' = cnf /\ hw' = hw /\ unsure' = unsure
  <2>1. Typed' /\ AlwaysReadable'
    BY <1>1, <1>2, <1>3 DEF Inv, Typed, AlwaysReadable, Supported
  <2>2. ASSUME NEW q \in Ports, Supported(resp'[q]) PROVE q # p /\ resp'[q] = resp[q]
    BY <1>2, <1>3, <2>2 DEF Inv, Typed
  <2>3. Stored' /\ OnlyFailedOptionsDiffer'
    BY <1>3, <2>2 DEF Inv, Stored, OnlyFailedOptionsDiffer, Supported
  <2> QED BY <1>3, <2>1, <2>3 DEF Inv
<1>4. CASE /\ Supported(new)
           /\ cnf' = [cnf EXCEPT ![p] = new]
           /\ ParamConfig(p, new, Named(arg))
  <2>1. Named(arg) \in SUBSET Options /\ \A o \in Options \ Named(arg) : new[o] = cnf[p][o]
    BY <1>1 DEF Named
  <2>2. /\ hw' = [hw EXCEPT ![p] = hw'[p]] /\ hw'[p] \in Settings /\ Supported(hw'[p])
        /\ unsure' \in [Ports -> SUBSET Options]
        /\ \A q \in Ports \ {p} : unsure'[q] = unsure[q]
        /\ \A o \in Options \ unsure'[p] : hw'[p][o] = new[o]
    BY <1>1, <1>4, <2>1, ParamConfigStep
  <2>3. Typed'
    BY <1>1, <1>2, <1>4, <2>2 DEF Inv, Typed
  <2>4. ASSUME NEW q \in Ports PROVE Supported(cnf'[q]) /\ Supported(hw'[q])
    BY <1>4, <2>2 DEF Inv, Typed, AlwaysReadable
  <2>5. ASSUME NEW q \in Ports, Supported(resp'[q]) PROVE resp'[q] = cnf'[q]
    BY <1>2, <1>4, <2>5 DEF Inv, Typed, Stored
  <2>6. ASSUME NEW q \in Ports, NEW o \in Options \ unsure'[q]
        PROVE  hw'[q][o] = cnf'[q][o] /\ (Supported(resp'[q]) => resp'[q][o] = hw'[q][o])
    <3>1. CASE q = p
      BY <1>2, <1>4, <2>2, <2>6, <3>1 DEF Inv, Typed
    <3>2. CASE q # p
      <4>1. /\ hw'[q] = hw[q] /\ cnf'[q] = cnf[q] /\ resp'[q] = resp[q]
            /\ o \in Options \ unsure[q]
        BY <1>2, <1>4, <2>2, <2>6, <3>2 DEF Inv, Typed
      <4> QED BY <4>1 DEF Inv, OnlyFailedOptionsDiffer
    <3> QED BY <3>1, <3>2
  <2>7. AlwaysReadable' /\ Stored' /\ OnlyFailedOptionsDiffer'
    BY <2>4, <2>5, <2>6 DEF AlwaysReadable, Stored, OnlyFailedOptionsDiffer, Supported
  <2>8. ASSUME NEW q \in Ports, NEW o \in Options, cnf'[q][o] # cnf[q][o]
        PROVE  cmd'[q][o] # Unset
    BY <1>1, <1>2, <1>4, <2>8 DEF Inv, Typed
  <2> QED BY <2>3, <2>7, <2>8 DEF Inv
<1> QED BY <1>2, <1>3, <1>4

LEMMA ConfigStep == Inv /\ [Next]_vars => Inv'
<1>1. ASSUME Inv, Next PROVE Inv'
  BY <1>1, NextIsConfigure, ConfigureStep
<1>2. ASSUME Inv, UNCHANGED vars PROVE Inv'
  BY <1>2 DEF vars, Inv, Typed, AlwaysReadable, Stored, OnlyFailedOptionsDiffer
<1> QED BY <1>1, <1>2

LEMMA ConfigAlways == Spec => []Inv
BY ConfigInit, ConfigStep, PTL DEF Spec

-----------------------------------------------------------------------------
\* gw_uart_get never meets settings it cannot name, whatever clients send and
\* whether or not uart_param_config fails after uart->cnf was written.
THEOREM SettingsAlwaysReadable == Spec => []AlwaysReadable
<1>1. Inv => AlwaysReadable
  BY DEF Inv
<1> QED BY <1>1, ConfigAlways, PTL

\* However requests are refused and uart_param_config fails, uart->cnf and the
\* answers are wrong about the hardware only in options named since it last succeeded.
THEOREM DoubtOnlyWhereFailed == Spec => []OnlyFailedOptionsDiffer
<1>1. Inv => OnlyFailedOptionsDiffer
  BY DEF Inv
<1> QED BY <1>1, ConfigAlways, PTL

\* No request changes an option it does not name.
THEOREM OptionsStayUntouched == Spec => UntouchedOptions
<1> DEFINE Kept == \A p \in Ports : \A o \in Options :
                     cnf'[p][o] # cnf[p][o] => cmd'[p][o] # Unset
<1>1. Inv /\ [Next]_vars => [Kept]_vars
  BY NextIsConfigure, ConfigureStep
<1> QED BY <1>1, ConfigAlways, PTL DEF Spec, UntouchedOptions

=============================================================================
