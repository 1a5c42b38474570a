----------------------------- MODULE Allocator -----------------------------
(* What an allocator promises: blocks that do not overlap, in the space it *)
(* was given, and a request is refused only when no gap is large enough.   *)
EXTENDS Naturals, FiniteSets

CONSTANTS
  Alignment,
  Overhead   \* bytes of a block that its owner may not use

VARIABLES
  space,     \* the ranges <<from, to>> of usable addresses
  used,      \* the ranges of the blocks in use
  refused    \* bytes of the request the last step refused, or 0

Need(n) == Alignment * ((n + Overhead + Alignment - 1) \div Alignment)

Apart(r, s) == r[2] <= s[1] \/ s[2] <= r[1]

Within(r, s) == s[1] <= r[1] /\ r[2] <= s[2]

Available(r, ranges) ==
  (\E s \in ranges : Within(r, s)) /\ \A u \in used : Apart(r, u)

\* A gap begins where a range of the space begins or a block ends.
NoGap(n, ranges) ==
  \A from \in {s[1] : s \in ranges} \cup {u[2] : u \in used} :
    ~Available(<<from, from + Need(n)>>, ranges)

Init == space = {} /\ used = {} /\ refused = 0

Allocate ==
  \E r \in used' \ used :
    /\ used' = used \cup {r}
    /\ Available(r, space')
    /\ r[1] % Alignment = 0 /\ r[2] - r[1] >= Need(1)
    /\ refused' = 0
    /\ space = space' \/ space = {}

Release ==
  /\ \E r \in used : used' = used \ {r}
  /\ refused' = 0 /\ UNCHANGED space

Refuse ==
  /\ refused' # 0 /\ NoGap(refused', space')
  /\ UNCHANGED used
  /\ space = space' \/ space = {}

Redefine == used = {} /\ used' = {} /\ refused' = 0

Quiet == refused' = 0 /\ UNCHANGED <<space, used>>

Next == Allocate \/ Release \/ Refuse \/ Redefine \/ Quiet

Spec == Init /\ [][Next]_<<space, used, refused>>
=============================================================================
