---------------------------- MODULE MCPatchRam ----------------------------
(* The command lines and controllers PatchRam is checked with. *)
EXTENDS PatchRam

(* Every option; the commands after the last change of speed together.  A  *)
(* controller that confirms is waited for, one that does not is not.       *)
CommandLines(confirms) ==
  {o \in OptionType : o.no2bytes = ~confirms /\ o.lpm = o.i2s /\ o.bdaddr = o.scopcm}

Controllers(asleep, prompt, refuses, confirms) ==
  [asleep: asleep, prompt: prompt, refuses: refuses, confirms: {confirms}]

(* Alarms at any time, with and without refusals; alarms only in silence.  *)
MCCases ==
  CommandLines(FALSE) \X (Controllers(0..2, {TRUE}, {FALSE}, FALSE)
                            \cup Controllers(0..1, {FALSE}, {FALSE}, FALSE))
    \cup CommandLines(TRUE) \X Controllers(0..1, {FALSE}, {TRUE}, TRUE)
=============================================================================
