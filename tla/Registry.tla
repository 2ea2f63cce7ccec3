------------------------------ MODULE Registry ------------------------------
(***************************************************************************)
(* What provisioning promises to those who read its files, with no          *)
(* operation, call or read-modify-write in sight: a bundle that is either   *)
(* whole or unreadable, and changes by one entry at a time; key files that  *)
(* change only while the bundle is whole; and keys, each made for one       *)
(* service, put in its key file before it is listed, and listed once: what  *)
(* has been dropped does not come back.                                     *)
(***************************************************************************)
CONSTANTS Names, Keys, NoName, NoKey

VARIABLES
  readable,   \* whether bundle.json can be parsed
  listed,     \* per service: the public keys that its entry lists
  held,       \* per service: the key in its key file, NoKey for none
  owner,      \* history only: the service each key was made for, NoName before
  published   \* history only: the keys that a bundle has ever listed

registry == <<readable, listed, held, owner, published>>

RegistryInit ==
  /\ readable = FALSE
  /\ listed = [n \in Names |-> {}]
  /\ held = [n \in Names |-> NoKey]
  /\ owner = [k \in Keys |-> NoName]
  /\ published = {}

\* The first bundle, which lists nothing.
Found ==
  /\ ~readable /\ published = {}
  /\ readable' = TRUE
  /\ UNCHANGED <<listed, held, owner, published>>

\* The bundle is about to be written; a kill leaves it at that.
Tear ==
  /\ readable
  /\ readable' = FALSE
  /\ UNCHANGED <<listed, held, owner, published>>

\* A new key pair for a service.
Hold(n, k) ==
  /\ readable /\ owner[k] = NoName
  /\ held' = [held EXCEPT ![n] = k]
  /\ owner' = [owner EXCEPT ![k] = n]
  /\ UNCHANGED <<readable, listed, published>>

\* The key file is removed, or about to be written.
Lose(n) ==
  /\ readable
  /\ held' = [held EXCEPT ![n] = NoKey]
  /\ UNCHANGED <<readable, listed, owner, published>>

\* A mistake to be caught: a key that was revoked and is still held is listed again.
RegisterAgain(n, keep) ==
  /\ ~readable /\ held[n] \in Keys
  /\ readable' = TRUE
  /\ listed' = [listed EXCEPT ![n] = {held[n]} \cup IF keep THEN @ ELSE {}]
  /\ published' = published \cup {held[n]}
  /\ UNCHANGED <<held, owner>>

\* The key that the service holds is listed for the first time.
Register(n, keep) ==
  /\ ~readable /\ held[n] \in Keys \ published
  /\ readable' = TRUE
  /\ listed' = [listed EXCEPT ![n] = {held[n]} \cup IF keep THEN @ ELSE {}]
  /\ published' = published \cup {held[n]}
  /\ UNCHANGED <<held, owner>>

Revoke(n) ==
  /\ ~readable
  /\ readable' = TRUE
  /\ listed' = [listed EXCEPT ![n] = {}]
  /\ UNCHANGED <<held, owner, published>>

RegistryNext ==
  \/ Found \/ Tear
  \/ \E n \in Names :
       \/ \E k \in Keys : Hold(n, k)
       \/ \E keep \in BOOLEAN : Register(n, keep)
       \/ Lose(n) \/ Revoke(n)

RegistrySpec == RegistryInit /\ [][RegistryNext]_registry
=============================================================================
