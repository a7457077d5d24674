---------------------------- MODULE KeyringEntries ----------------------------
(***************************************************************************)
(* The contents of a keyring file (oo7::file::api): keys, encrypted items, *)
(* attribute matching and the checks made when a keyring is unlocked.      *)
(*                                                                         *)
(* Key derivation and the MACs are ideal: a key is the pair of the secret  *)
(* and the salt it was derived from, and an encrypted item reads back      *)
(* exactly under the key it was written with.  The Vec of items is a set:  *)
(* every created item has an identity of its own.                          *)
(***************************************************************************)
EXTENDS Naturals, FiniteSets

CONSTANTS
  Items,        \* identities of the items that can be created
  AttrsOf,      \* the attribute pairs of each item
  Secrets,      \* keyring secrets
  WeakSecrets,  \* the secrets shorter than MIN_PASSWORD_LENGTH
  NoSecret,     \* Option<Secret>::None, an unencrypted keyring
  NoKey         \* Option<Key>::None

ASSUME EntriesAssumption ==
  /\ DOMAIN AttrsOf = Items
  /\ WeakSecrets \subseteq Secrets
  /\ NoSecret \notin Secrets

Salt == Nat

Key == [secret : Secrets, salt : Salt]

ASSUME NoKeyAssumption == NoKey \notin Key

\* Mutant: a key is derived though there is no secret.
MutKeyOf(s, salt) == [secret |-> s, salt |-> salt]

\* The key a keyring with this salt derives from the secret.
KeyOf(s, salt) == IF s = NoSecret THEN NoKey ELSE [secret |-> s, salt |-> salt]

\* check_strength fails for a key of a secret that is too short.
IsWeak(k) == k # NoKey /\ k.secret \in WeakSecrets

Entry == [item : Items, key : Key \cup {NoKey}]

Encrypt(i, k) == [item |-> i, key |-> k]

ItemsOf(S) == {e.item : e \in S}

IsValid(e, k) == e.key = k

\* Hashed attributes only compare equal under the key that hashed them; an
\* empty query matches every item whatever its key.
Matches(e, q, k) == q = {} \/ (e.key = k /\ q \subseteq AttrsOf[e.item])

-----------------------------------------------------------------------------
(* remove_items refuses as a whole when a matching item does not decrypt. *)

\* Mutant: matching items are removed without trying to decrypt them.
MutRemovable(S, q, k) == TRUE

Removable(S, q, k) == \A e \in S : Matches(e, q, k) => IsValid(e, k)

Remaining(S, q, k) == {e \in S : ~Matches(e, q, k)}

-----------------------------------------------------------------------------
(* Adding one item: with replace the matching items go first, and only then *)
(* is the strength of the key checked.                                      *)

\* Mutant: the strength of the key is not checked.
MutPutFails(S, i, replace, k) == replace /\ ~Removable(S, AttrsOf[i], k)

PutFails(S, i, replace, k) ==
  \/ replace /\ ~Removable(S, AttrsOf[i], k)
  \/ IsWeak(k)

AfterReplace(S, i, replace, k) ==
  IF replace /\ Removable(S, AttrsOf[i], k) THEN Remaining(S, AttrsOf[i], k) ELSE S

AfterPut(S, i, replace, k) ==
  AfterReplace(S, i, replace, k)
    \cup (IF PutFails(S, i, replace, k) THEN {} ELSE {Encrypt(i, k)})

-----------------------------------------------------------------------------
(* Unlocking: tolerated as long as no more items are broken than valid. *)

Valid(S, k) == {e \in S : IsValid(e, k)}

UnlockVerdict(S, k) ==
  LET valid  == Cardinality(Valid(S, k))
      broken == Cardinality(S \ Valid(S, k))
  IN  IF valid = 0 /\ broken # 0 THEN "IncorrectSecret"
      ELSE IF broken > valid THEN "PartiallyCorruptedKeyring"
      ELSE "ok"
===============================================================================
