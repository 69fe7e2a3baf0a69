--------------------------- MODULE MCMediaAccess ---------------------------
(***************************************************************************)
(* Two users with a session each, one medium, two concurrent requests.     *)
(***************************************************************************)
EXTENDS MediaAccess, TLC

CONSTANTS a, b, sa, sb

MCSessionOf == (sa :> a) @@ (sb :> b)

\* Two grants that tell the permissions of the operations apart.
MCMasks == {{"read"}, {"discover"}, {"share", "update", "delete"}}

\* The users are alike, each with its session.
Swap == (a :> b) @@ (b :> a) @@ (sa :> sb) @@ (sb :> sa)

Symmetry == Permutations(Workers) \union {Swap}

\* TLC evaluates the theorem UploadLimitIsExact on small integers.
ASSUME UploadLimitAssumption ==
  \A maximum, overhead \in 1..MaxInt :
    \A framing \in 1..overhead, size \in 0..(3 * MaxInt) :
      UploadedSize(size, framing, maximum, overhead) =
        IF maximum + overhead <= MaxInt /\ size <= maximum THEN size ELSE 0
=============================================================================
