---------------------------- MODULE MCNodeRunner ----------------------------
(* A curve of order 3: the smallest with two keys that cancel and a third   *)
(* that makes the total differ from the sum before it.                      *)
EXTENDS NodeRunner

MCOdd(k) == k = 2

\* No label is ever applied by the runner.
MCLabelTweak(scan, m) == 0

InputOf(keys, taproot, recipient, labeled) ==
    [keys |-> keys, taproot |-> taproot, scan |-> <<1, 1>>,
     spend |-> <<1, recipient>>, labeled |-> <<FALSE, labeled>>]

\* First call: every one to three keys, taproot or not.  Later calls: one of
\* each kind of answer.
MCRequests(n) ==
    IF n = 0 THEN {InputOf(<<1>>, <<FALSE>>, 1, FALSE)}
    ELSE IF n = 1
    THEN UNION {{InputOf(keys, taproot, 1, FALSE) :
                    keys \in [1..k -> 0..3], taproot \in [1..k -> BOOLEAN]} : k \in 1..3}
    ELSE {InputOf(<<2, 1, 1>>, <<FALSE, FALSE, FALSE>>, 1, FALSE),
          InputOf(<<1, 2>>, <<FALSE, FALSE>>, 1, FALSE),
          InputOf(<<1>>, <<FALSE>>, 2, FALSE),
          InputOf(<<1>>, <<FALSE>>, 0, FALSE),
          InputOf(<<1>>, <<TRUE>>, 1, TRUE)}
=============================================================================
