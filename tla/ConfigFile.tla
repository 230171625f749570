----------------------------- MODULE ConfigFile -----------------------------
(***************************************************************************)
(* What a reader of the destination is promised, whatever confd is doing:  *)
(* the path holds one whole text at a time, which changes in one step to   *)
(* another whole text that the configuration lets through, and the service *)
(* only ever loads the text that is there.  TemplateResource implements    *)
(* this where the destination is not a mount point.                        *)
(***************************************************************************)
CONSTANTS Texts,   \* the texts a complete rendering can produce
          NoText   \* there is no file, or the service has loaded nothing

VARIABLES
  file,      \* the text at the destination
  service,   \* the text the service runs with
  vetted     \* the texts this configuration lets through; never changes

vars == <<file, service, vetted>>

Init ==
  /\ vetted \subseteq Texts
  /\ file \in Texts \cup {NoText}
  /\ service = file

Install(t) ==
  /\ t \in vetted
  /\ file' = t
  /\ UNCHANGED <<service, vetted>>

Load ==
  /\ file # NoText
  /\ service' = file
  /\ UNCHANGED <<file, vetted>>

Next == (\E t \in Texts : Install(t)) \/ Load

Spec == Init /\ [][Next]_vars
=============================================================================
