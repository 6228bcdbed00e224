-------------------------------- MODULE Timers --------------------------------
(***************************************************************************)
(* The class TIMER of c1000kPracticeGuide/cppserver (src/timers.cc): the   *)
(* pending timers are kept in two multimaps, one ordered by time and one   *)
(* by item, which must mirror each other.  A TIMER is a record of two      *)
(* bags, time_arg of pairs <<time, item>> and arg_time of <<item, time>>.  *)
(* The order among equal keys is left open.                                *)
(***************************************************************************)
EXTENDS Naturals, Bags

NewTimer == [time_arg |-> EmptyBag, arg_time |-> EmptyBag]

add_timer(T, item, t) ==
  [time_arg |-> T.time_arg (+) SetToBag({<<t, item>>}),
   arg_time |-> T.arg_time (+) SetToBag({<<item, t>>})]

\* The bag without any copy of the elements of a set.
Without(B, gone) == [e \in BagToSet(B) \ gone |-> B[e]]

\* The entries of an item in the map ordered by item.
TimersOf(T, item) == {e \in BagToSet(T.arg_time) : e[1] = item}

\* Seeded fault: only the map ordered by item is cleaned.
remove_timer_half(T, item) ==
  [time_arg |-> T.time_arg,
   arg_time |-> Without(T.arg_time, TimersOf(T, item))]

\* The entries of an item, in both maps.
remove_timer(T, item) ==
  [time_arg |-> Without(T.time_arg, {<<e[2], item>> : e \in TimersOf(T, item)}),
   arg_time |-> Without(T.arg_time, TimersOf(T, item))]

\* What timer_time_arg.begin() may be: an entry of the least time.
Earliest(T) ==
  {e \in BagToSet(T.time_arg) : \A f \in BagToSet(T.time_arg) : e[1] <= f[1]}

\* The timers get_timer(now) may return, and the object after it returned e.
\* The time it compares with is read through an iterator already erased; the
\* node is freed and not reused in between, so the old value is read.
Expired(T, now) == {e \in Earliest(T) : e[1] <= now}
Popped(T, e) ==
  [time_arg |-> T.time_arg (-) SetToBag({e}),
   arg_time |-> T.arg_time (-) SetToBag({<<e[2], e[1]>>})]

\* The assert(0) of get_timer: the pair is missing from the other map.
PopAsserts(T, e) == ~BagIn(<<e[2], e[1]>>, T.arg_time)

\* Seeded fault: the last timer is taken for the first.
get_mintimer_last(T, now, mintimer) ==
  IF T.time_arg = EmptyBag THEN mintimer
  ELSE LET last == (CHOOSE e \in BagToSet(T.time_arg) :
                      \A f \in BagToSet(T.time_arg) : e[1] >= f[1])[1]
       IN  IF now >= last THEN 0 ELSE last - now

\* The time epoll_wait may block.
get_mintimer(T, now, mintimer) ==
  IF T.time_arg = EmptyBag THEN mintimer
  ELSE LET first == (CHOOSE e \in Earliest(T) : TRUE)[1]
       IN  IF now >= first THEN 0 ELSE first - now

Mirrored(T) ==
  /\ BagToSet(T.arg_time) = {<<e[2], e[1]>> : e \in BagToSet(T.time_arg)}
  /\ \A e \in BagToSet(T.time_arg) :
        T.arg_time[<<e[2], e[1]>>] = T.time_arg[e]
===============================================================================
