------------------------- MODULE MCTemplateResource -------------------------
(***************************************************************************)
(* Instances of TemplateResource for TLC: two keys, two values the check   *)
(* command lets through and one it refuses.                                *)
(***************************************************************************)
EXTENDS TemplateResource

(* The switches a configuration has for the code to tell apart; the rest   *)
(* is as in services/confd/confd.toml.                                     *)
Config(noop, syncOnly, keep, mode, uid, mounted, root) ==
  [watch |-> FALSE, noop |-> noop, syncOnly |-> syncOnly, keepStageFile |-> keep,
   check |-> TRUE, reload |-> TRUE, mode |-> mode, uid |-> uid,
   mounted |-> mounted, root |-> root]

Watched(c) == [c EXCEPT !.watch = TRUE]

RenameConfigs ==
  {Config(FALSE, FALSE, FALSE, m, u, FALSE, TRUE) :
     m \in {Unset, "rw-r--r--"}, u \in Owners}
  \cup {Config(FALSE, TRUE, FALSE, Unset, "confd", FALSE, TRUE),
        Config(FALSE, FALSE, TRUE, Unset, "confd", FALSE, FALSE),
        Watched(Config(FALSE, FALSE, FALSE, Unset, "confd", FALSE, TRUE)),
        Watched(Config(FALSE, FALSE, TRUE, "rw-r--r--", "other", FALSE, TRUE)),
        Config(TRUE, FALSE, FALSE, Unset, "confd", FALSE, FALSE),
        Config(FALSE, FALSE, FALSE, BadMode, "confd", FALSE, FALSE)}

MountConfigs ==
  {Config(FALSE, s, FALSE, m, u, TRUE, TRUE) :
     s \in BOOLEAN, m \in {Unset, "rw-r--r--"}, u \in Owners}
  \cup {Config(FALSE, FALSE, k, Unset, u, TRUE, FALSE) :
          k \in BOOLEAN, u \in Owners}
  \cup {Watched(Config(FALSE, s, FALSE, Unset, "confd", TRUE, TRUE)) :
          s \in BOOLEAN}
=============================================================================
