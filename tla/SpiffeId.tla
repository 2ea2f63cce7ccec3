------------------------------ MODULE SpiffeId ------------------------------
(***************************************************************************)
(* SpiffeId.parse, the one gate in front of every identity: the sub of a    *)
(* token, the keys of a bundle, the name of a service to provision.         *)
(*                                                                         *)
(* A string to parse is a record: whether it begins with spiffe://, and the *)
(* texts between the slashes of the rest, at least one, any of them empty.  *)
(* The regular expressions and character sets of the code are the two       *)
(* constants.  Parsing changes nothing: the text of an ID parsed is the     *)
(* string it was parsed from, so a valid string stands for its ID.          *)
(***************************************************************************)
EXTENDS Naturals, Sequences

CONSTANTS
  TrustDomainText,  \* texts of the characters a trust domain may have
  SegmentText       \* texts of the characters a path segment may have

TrustDomainOf(id) == Head(id.parts)
PathOf(id) == Tail(id.parts)

\* A trailing slash leaves an empty last segment and is refused with the rest.
\* Only a path segment may not be relative: a trust domain may.
IsSpiffeId(id) ==
  /\ id.scheme
  /\ TrustDomainOf(id) \in TrustDomainText \ {""}
  /\ \A i \in DOMAIN PathOf(id) : PathOf(id)[i] \in SegmentText \ {"", ".", ".."}
=============================================================================
