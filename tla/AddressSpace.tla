---------------------------- MODULE AddressSpace ----------------------------
(***************************************************************************)
(* What a host-memory allocator promises to its callers, without free      *)
(* lists: each byte of the buffer has at most one owner, a memory object   *)
(* owns one contiguous range from the moment it is handed out until it is  *)
(* freed, and only bytes that nobody owns are ever handed out.             *)
(***************************************************************************)
EXTENDS Naturals

CONSTANTS Handles,      \* memory objects
          NumBytes,     \* length of the buffer
          NoOwner

VARIABLE owner          \* owner[a]: the memory object that owns byte a

Bytes == 0 .. NumBytes - 1

Owned(own, h) == {a \in Bytes : own[a] = h}

Contiguous(S) == \A a, b \in S : \A c \in Bytes : a < c /\ c < b => c \in S

Init == owner = [a \in Bytes |-> NoOwner]

\* Unowned bytes pass to objects that owned nothing; nothing else changes.
Acquire ==
  /\ owner' \in [Bytes -> Handles \cup {NoOwner}]
  /\ \A a \in Bytes : owner[a] # NoOwner => owner'[a] = owner[a]
  /\ \A a \in Bytes : owner'[a] # owner[a] => Owned(owner, owner'[a]) = {}
  /\ \A h \in Handles : Contiguous(Owned(owner', h))

\* One object gives back every byte it owns.
Release ==
  \E h \in Handles :
    owner' = [a \in Bytes |-> IF owner[a] = h THEN NoOwner ELSE owner[a]]

Next == Acquire \/ Release

Spec == Init /\ [][Next]_owner
=============================================================================
