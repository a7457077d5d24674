------------------------ MODULE KeyringStoreRefinement ------------------------
(* UnlockedKeyring implements KeyringStore. *)
EXTENDS UnlockedKeyring

\* change_secret holds the items in its own memory between the reset and the
\* re-encryption; to its callers they never left the keyring.
Rekeying == {t \in Tasks : loc[t].ret = "reencrypt" /\ pc[t] \in {"secret", "key", "kdf", "reencrypt"}}

StoreMem ==
  IF mode = "down" THEN ItemsOf(Entries(file))
  ELSE ItemsOf(items) \cup UNION {loc[t].snap : t \in Rekeying}

StorePhase(t) ==
  LET o == loc[t].op
      dumping == pc[t] \in {"mtime", "keyring"} \cup (DumpLabels \ {"stat"})
  IN  IF pc[t] = "idle" THEN "idle"
      ELSE IF pc[t] = "stat" THEN "saved"
      ELSE IF o \in {"search", "peek"} THEN "reading"
      ELSE IF o \in {"write", "change"} THEN "keeping"
      ELSE IF o = "bulk" THEN (IF pc[t] \in DumpLabels THEN "unsaved" ELSE "editing")
      ELSE IF dumping THEN "unsaved" ELSE "editing"

Store == INSTANCE KeyringStore WITH
  mem     <- StoreMem,
  saved   <- ItemsOf(Entries(file)),
  flushed <- ItemsOf(Entries(flushed)),
  kept    <- mode # "down" /\ hasPath,
  phase   <- [t \in Tasks |-> StorePhase(t)],
  answer  <- [t \in Tasks |-> loc[t].res]

\* Every step of the keyring is a step of KeyringStore or leaves it unchanged:
\* editing calls take effect at once in memory, the file goes from one complete
\* state of the memory to another, Ok is answered only after the call's own edit
\* is in the file, and changing the secret keeps every item.
ImplementsStore == Store!Spec
===============================================================================
