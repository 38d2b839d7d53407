---------------------------- MODULE MCSmallParts ----------------------------
EXTENDS SmallParts

CONSTANTS s1, s2, s3, noName

McSsids == {s1, s2, s3}

\* With the room of the cfg: two short entries, or the longer one.
McEntrySize == s1 :> 2 @@ s2 :> 1 @@ s3 :> 1

\* The first and the last second a form can set, a Sunday, and one past 2099.
McForms ==
    {<<0, 0, 0, 6, 1, 1, 2000>>, <<59, 59, 23, 4, 31, 12, 2099>>,
     <<8, 30, 19, 0, 29, 2, 2032>>, <<1, 2, 3, 5, 4, 6, 2100>>}

McFirstRegs == <<255, 170, 114, 1, 1, 129, 0>>

McCuts == {0, 1, 4, 6}

\* -40.25, -1.25, -1, -0.75, -0.25, 0.25, 0.75, 25.5 and 85 degrees
McRawTemps == {-161, -5, -4, -3, -1, 1, 3, 102, 340}
=============================================================================
