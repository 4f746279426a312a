---------------------------- MODULE MentionStore ----------------------------
(***************************************************************************)
(* What the files of the groups promise to those who save in them: one     *)
(* store of mentions per group, in which a save happens at once, adds one  *)
(* mention to its group and takes none away.  Only a group that somebody   *)
(* could not read may lose mentions, and only when somebody saves.         *)
(***************************************************************************)
CONSTANTS
  Writers,  \* each saves one mention
  Names,    \* of groups
  Name      \* the group of each writer

VARIABLES
  stored,   \* the mentions of each group
  saved,    \* the writers who have been told that their mention is saved
  damaged   \* the groups that somebody could not read

Init ==
  /\ stored = [n \in Names |-> {}]
  /\ saved = {}
  /\ damaged = {}

Save(w) ==
  /\ stored' \in [Names -> SUBSET Writers]
  /\ w \in stored'[Name[w]]
  /\ \A n \in Names \ damaged : stored[n] \subseteq stored'[n]
  /\ \A n \in Names : \A v \in stored'[n] \ stored[n] : v = w /\ n = Name[w]
  /\ saved' = saved \cup {w}
  /\ UNCHANGED damaged

Damage ==
  /\ damaged' \in SUBSET Names
  /\ damaged \subseteq damaged'
  /\ UNCHANGED <<stored, saved>>

Next == Damage \/ \E w \in Writers : Save(w)

Spec == Init /\ [][Next]_<<stored, saved, damaged>>
=============================================================================
