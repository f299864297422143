----------------------------- MODULE UartConfig -----------------------------
(***************************************************************************)
(* Port settings: the UARTx_CNF message of main/apih_uart.c (parse_uart_   *)
(* params, uart_config) and gw_uart_get / gw_uart_set of main/uart.c.      *)
(* Settings are written as in gw_uart_config_t: the word length as         *)
(* gw_uart_word_t, and so on; gw_uart_set maps them one to one to the      *)
(* driver's enumerations.                                                  *)
(***************************************************************************)
EXTENDS Integers

CONSTANTS
  Ports,
  Values,      \* numbers a client puts into WL, PAR and SB
  Rates,       \* numbers a client puts into BR
  Unset        \* an option that is not in the ARG

ASSUME ValueAssumption == Values \cup Rates \subseteq Nat /\ Unset \notin Nat

Options == {"WL", "PAR", "SB", "BR"}

VARIABLES
  cnf,      \* uart->cnf of each port
  hw,       \* the settings the hardware runs with
  resp,     \* the last answer about each port
  cmd,      \* the last ARG parsed for each port
  unsure    \* ghost: options named by accepted requests since uart_param_config
            \* last succeeded

vars == <<cnf, hw, resp, cmd, unsure>>

\* gw_uart_word_t, gw_uart_parity_t and gw_uart_stop_bits_t.
Word7 == 0
Word8 == 1

\* The settings gw_uart_set accepts: no nine-bit words, no half stop bit.
Supported(c) ==
  /\ c["WL"] \in {Word7, Word8}
  /\ c["PAR"] \in {0, 1, 2}
  /\ c["SB"] \in {1, 2, 3}

\* gw_uart_config_default.
Default == [o \in Options |-> CASE o = "WL" -> Word8 [] o = "PAR" -> 0
                                [] o = "SB" -> 1 [] o = "BR" -> 115200]

\* Settings of a port, as a function of the option.
Settings == [Options -> Nat]

\* The two-bit fields wl, par and sb of api_cmd_uart_t; boud holds any int.
Field(o, v) == IF o = "BR" THEN v ELSE v % 4

\* parse_uart_params.
Parsed(arg) == [o \in Options |-> IF arg[o] = Unset THEN Unset ELSE Field(o, arg[o])]

\* Faulty variant: the request replaces all settings, as if gw_uart_get failed.
MergedIntoZero(c, new) == [o \in Options |-> IF new[o] = Unset THEN 0 ELSE new[o]]

\* uart_config: gw_uart_get, then the options of the request over it.
Merged(c, new) == [o \in Options |-> IF new[o] = Unset THEN c[o] ELSE new[o]]

\* Faulty variant: settings are stored before they are looked at.
Unchecked(c) == TRUE

\* The early returns of gw_uart_set.
Accepted(c) == Supported(c)

\* The options a request names.
Named(arg) == {o \in Options : arg[o] # Unset}

\* Faulty variant: the driver is not called for settings uart->cnf holds already.
SkippedIfStored(p, new, named) ==
  IF new = cnf[p]
    THEN /\ unsure' = [unsure EXCEPT ![p] = {}]
         /\ UNCHANGED hw
    ELSE \/ /\ hw' = [hw EXCEPT ![p] = new]
            /\ unsure' = [unsure EXCEPT ![p] = {}]
         \/ /\ unsure' = [unsure EXCEPT ![p] = @ \cup named]
            /\ UNCHANGED hw

\* uart_param_config with the whole of uart->cnf: the hardware takes it over, or
\* the call fails, with some of the options applied.
ParamConfig(p, new, named) ==
  \/ /\ hw' = [hw EXCEPT ![p] = new]
     /\ unsure' = [unsure EXCEPT ![p] = {}]
  \/ /\ \E done \in SUBSET Options :
          hw' = [hw EXCEPT ![p] = [o \in Options |-> IF o \in done THEN new[o] ELSE @[o]]]
     /\ unsure' = [unsure EXCEPT ![p] = @ \cup named]

\* handle_msg on UARTx_CNF.  What gw_uart_set says is ignored: the answer always
\* shows the settings asked for.  uart_param_config is called, and may fail, after
\* uart->cnf was written.
Configure(p, arg) ==
  LET new == Merged(cnf[p], Parsed(arg))
  IN  /\ cmd' = [cmd EXCEPT ![p] = arg]
      /\ resp' = [resp EXCEPT ![p] = new]
      /\ IF Accepted(new)
           THEN /\ cnf' = [cnf EXCEPT ![p] = new]
                /\ ParamConfig(p, new, Named(arg))
           ELSE UNCHANGED <<cnf, hw, unsure>>

Arg == [Options \ {"BR"} -> Values \cup {Unset}]

\* gw_uart_init configures every port with the default settings.
Init ==
  /\ cnf = [p \in Ports |-> Default]
  /\ hw = [p \in Ports |-> Default]
  /\ resp = [p \in Ports |-> Default]
  /\ cmd = [p \in Ports |-> [o \in Options |-> Unset]]
  /\ unsure = [p \in Ports |-> {}]

Next ==
  \E p \in Ports, r \in Rates \cup {Unset}, a \in Arg :
    Configure(p, [o \in Options |-> IF o = "BR" THEN r ELSE a[o]])

Spec == Init /\ [][Next]_vars

-----------------------------------------------------------------------------
\* uart->cnf and the hardware always hold settings gw_uart_get can name, so that
\* uart_config never starts from zeroed settings.
AlwaysReadable == \A p \in Ports : Supported(cnf[p]) /\ Supported(hw[p])

\* What uart->cnf and the answers say of an option is what the hardware does, unless
\* uart_param_config failed for a request that named it and has not succeeded since:
\* a failure casts no doubt on other options, refused requests add none, and the next
\* request that succeeds, whatever it names, makes up for all failures before it.
OnlyFailedOptionsDiffer ==
  \A p \in Ports : \A o \in Options \ unsure[p] :
    /\ hw[p][o] = cnf[p][o]
    /\ Supported(resp[p]) => resp[p][o] = hw[p][o]

\* A request leaves the options it does not name as they were, accepted or not.
UntouchedOptions ==
  [][\A p \in Ports : \A o \in Options :
       cnf'[p][o] # cnf[p][o] => cmd'[p][o] # Unset]_vars

=============================================================================
