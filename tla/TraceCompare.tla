---------------------------- MODULE TraceCompare ----------------------------
(***************************************************************************)
(* verification/differential.py: what it accepts as a trace (parse_trace)  *)
(* and when it passes two of them (compare_traces).  Both operators are    *)
(* TRUE when the Python function raises no exception.                      *)
(***************************************************************************)
EXTENDS Integers, Sequences, SequencesExt

parse_trace(records) ==
  /\ records # <<>>
  /\ \A i \in DOMAIN records :
       records[i].type = "final" <=> i = Len(records)
  /\ \A i \in DOMAIN records :
       records[i].type = "retire" => records[i].index = i - 1
  /\ Last(records).retired = Len(records) - 1

Same(expected, actual, fields) ==
  \A f \in fields : expected[f] = actual[f]

\* Mutant: the value is compared only when both sides name the same register.
SameRetirement_ValueGated(expected, actual) ==
  /\ Same(expected, actual, {"type", "index", "pc", "instruction", "next_pc",
                             "reg_write", "mem_write"})
  /\ expected.reg_write /\ expected.rd = actual.rd =>
       expected.reg_value = actual.reg_value
  /\ expected.mem_write => Same(expected, actual, {"mem_addr", "mem_value"})

SameRetirement(expected, actual) ==
  /\ Same(expected, actual, {"type", "index", "pc", "instruction", "next_pc",
                             "reg_write", "mem_write"})
  /\ expected.reg_write => Same(expected, actual, {"rd", "reg_value"})
  /\ expected.mem_write => Same(expected, actual, {"mem_addr", "mem_value"})

SameFinal(expected, actual) ==
  /\ Same(expected, actual, {"type", "status", "pc", "retired", "uart_tx",
                             "debug_value", "gpio_output", "gpio_direction",
                             "timer_counter", "timer_compare",
                             "timer_control"})
  /\ expected.status = "faulted" =>
       /\ Same(expected, actual, {"fault", "fault_pc", "fault_instruction",
                                  "fault_address_valid"})
       /\ expected.fault_address_valid =>
            expected.fault_address = actual.fault_address

compare_traces(cpp, rtl) ==
  /\ \A i \in DOMAIN Front(cpp) \cap DOMAIN Front(rtl) :
       SameRetirement(cpp[i], rtl[i])
  /\ Len(cpp) = Len(rtl)
  /\ SameFinal(Last(cpp), Last(rtl))
=============================================================================
