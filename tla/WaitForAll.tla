----------------------------- MODULE WaitForAll -----------------------------
(***************************************************************************)
(* The two counters of journeys (journey.cpp) and waitForAll(), which      *)
(* compares them in a loop without any lock.                               *)
(***************************************************************************)
EXTENDS Integers, FiniteSets

CONSTANT Journeys

ASSUME WaitForAllAssumption == IsFiniteSet(Journeys)

VARIABLES
  alive,      \* the journeys that have been created and not been destroyed
  unborn,     \* the journeys nobody has created yet
  created,    \* atomic<JourneyCreateTag>()
  destroyed,  \* atomic<JourneyDestroyTag>()
  main,       \* where the thread that calls waitForAll() is
  first,      \* the counter this build reads first; C++ leaves the order open
  seen        \* the value it has read first

waitVars == <<alive, unborn, created, destroyed, main, first, seen>>

\* Not yet in waitForAll(); before and between the two reads; returned.
MainPlaces == {"busy", "waiting", "between", "returned"}
Counters == {"created", "destroyed"}

WaitInit ==
  /\ alive = {}
  /\ unborn = Journeys
  /\ created = 0 /\ destroyed = 0
  /\ main = "busy"
  /\ first \in Counters
  /\ seen = 0

\* Mutant of Create: a new journey is not counted.
CreateUncounted(j) ==
  /\ j \in unborn
  /\ unborn' = unborn \ {j}
  /\ alive' = alive \cup {j}
  /\ UNCHANGED <<created, destroyed, main, first, seen>>

\* Journey::Journey, called by the main thread or by a journey.
Create(j) ==
  /\ j \in unborn
  /\ unborn' = unborn \ {j}
  /\ alive' = alive \cup {j}
  /\ created' = created + 1
  /\ UNCHANGED <<destroyed, main, first, seen>>

\* Journey::~Journey.
Destroy(j) ==
  /\ j \in alive
  /\ alive' = alive \ {j}
  /\ destroyed' = destroyed + 1
  /\ UNCHANGED <<unborn, created, main, first, seen>>

CallWait ==
  /\ main = "busy"
  /\ main' = "waiting"
  /\ UNCHANGED <<alive, unborn, created, destroyed, first, seen>>

Counter(c) == IF c = "created" THEN created ELSE destroyed

ReadFirst ==
  /\ main = "waiting"
  /\ main' = "between"
  /\ seen' = Counter(first)
  /\ UNCHANGED <<alive, unborn, created, destroyed, first>>

\* Mutant of Compare: the loop ends when the second value is not below the first.
CompareAtLeast ==
  /\ main = "between"
  /\ main' = IF \E c \in Counters \ {first} : Counter(c) >= seen
             THEN "returned" ELSE "waiting"
  /\ UNCHANGED <<alive, unborn, created, destroyed, first, seen>>

Compare ==
  /\ main = "between"
  /\ main' = IF \E c \in Counters \ {first} : Counter(c) = seen
             THEN "returned" ELSE "waiting"
  /\ UNCHANGED <<alive, unborn, created, destroyed, first, seen>>

\* The main thread creates journeys before it waits; later only journeys do.  (The
\* loop of a goAnyWait whose caller has ended is outside of what C++ defines.)
WaitNext ==
  \/ \E j \in Journeys : (main = "busy" \/ alive # {}) /\ Create(j)
  \/ \E j \in Journeys : Destroy(j)
  \/ CallWait \/ ReadFirst \/ Compare

WaitSpec == WaitInit /\ [][WaitNext]_waitVars

-----------------------------------------------------------------------------
(* Properties *)

WaitTypeOK ==
  /\ alive \subseteq Journeys /\ unborn \subseteq Journeys
  /\ created \in Nat /\ destroyed \in Nat /\ seen \in Nat
  /\ main \in MainPlaces
  /\ first \in Counters

\* When waitForAll() returns no journey is left, although journeys create
\* journeys and end between its two reads - if the build reads the counter of
\* destroyed journeys first.  Read second, it may have caught up with the number
\* of journeys there were before some were created (journey.cpp:189).
AllAreOver == main = "returned" /\ first = "destroyed" => alive = {}

\* Whichever counter a build reads first, what waitForAll() leaves is known: as many
\* journeys as were created between the two reads of its last comparison if it reads
\* the counter of the created first, and none otherwise (journey.cpp:189).
ReturnsByCount ==
  [][main = "between" /\ main' = "returned"
       => Cardinality(alive) = IF first = "created" THEN created - seen ELSE 0]_waitVars

=============================================================================
