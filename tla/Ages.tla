-------------------------------- MODULE Ages --------------------------------
(***************************************************************************)
(* The signing-key caches keep times and only ever ask how long ago one    *)
(* was. A time is kept as its age here, and an age stops growing at the    *)
(* last limit anything compares it with.                                   *)
(***************************************************************************)
EXTENDS Integers

Never == -1

Recent(age, limit) == age # Never /\ age < limit

(* One tick older; an age past its limit is as good as never.              *)
Forgetting(age, limit) == IF age # Never /\ age + 1 < limit THEN age + 1 ELSE Never

(* One tick older, up to the last limit.                                   *)
Aged(age, limit) == IF Recent(age, limit) THEN age + 1 ELSE age
=============================================================================
