------------------------------ MODULE MCWatchers ------------------------------
(* One run, its pull request and everybody who pushes to it.                   *)
EXTENDS Watchers

CONSTANTS build, lint

\* The checks of a commit take this course: the build starts, or has passed when it is
\* first seen, and then the linter fails.
Courses == {<<"absent", "absent">>, <<"pending", "absent">>, <<"pass", "absent">>, <<"pass", "fail">>}

\* A run is followed until the call that merged has returned, or further if it is done; one
\* that failed as long as that is all that went wrong with it: with its first watchers, no
\* push and no crash.
Followed ==
  /\ merged.head # 0 => call.pc # "idle" \/ run.stage = "done"
  /\ run.failed => Len(watch) < 2 /\ pushes + crashes = 0
  /\ \A c \in Commit : <<checks[c][build], checks[c][lint]>> \in Courses
================================================================================
