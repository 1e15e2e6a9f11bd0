------------------------------ MODULE FieldStore ------------------------------
(***************************************************************************)
(* What fru-device promises of the fields of a FRU: a device holds a value *)
(* for every field, the daemon knows the values it last read, and an       *)
(* update leaves the device with what was known, one field of it changed.  *)
(* An update that breaks off leaves anything until the next one is done.   *)
(***************************************************************************)
CONSTANTS Fields, Texts, Unreadable

VARIABLES
    store,    \* what the device holds, or Unreadable
    known,    \* what the daemon last read
    torn      \* an update of the device broke off

Set(f, text) ==
    /\ known # Unreadable
    /\ store' = [known EXCEPT ![f] = text]
    /\ torn' = FALSE
    /\ UNCHANGED known

BreakOff ==
    /\ known # Unreadable
    /\ torn' = TRUE
    /\ UNCHANGED known

Read ==
    /\ known' = store
    /\ UNCHANGED <<store, torn>>

Init == known = store

Next == (\E f \in Fields, text \in Texts : Set(f, text)) \/ BreakOff \/ Read

Spec == Init /\ [][Next]_<<store, known, torn>>
=============================================================================
