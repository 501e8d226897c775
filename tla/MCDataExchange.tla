-------------------------- MODULE MCDataExchange ---------------------------
(***************************************************************************)
(* Instances of DataExchange for TLC.                                      *)
(***************************************************************************)
EXTENDS DataExchange

Budget(owners, offersLeft, readsLeft, converts, gone, drags, moves, drops, exports, resets) ==
    [owners |-> owners, offers |-> offersLeft, reads |-> readsLeft, converts |-> converts, gone |-> gone,
     drags |-> drags, moves |-> moves, drops |-> drops, exports |-> exports, resets |-> resets]

\* READs of offers that are replaced, or vanish with a reset; conversions of replaced offers by
\* clients that go; both kinds in one table; drags over X windows that read data; exported drags.
MCBudgets == {Budget(2, 0, 2, 0, 0, 0, 0, 0, 0, 0), Budget(1, 0, 1, 0, 1, 0, 0, 0, 0, 1),
              Budget(0, 2, 0, 2, 1, 0, 0, 0, 0, 0), Budget(1, 1, 1, 1, 0, 0, 0, 0, 0, 0),
              Budget(0, 1, 0, 1, 1, 1, 2, 1, 0, 0), Budget(0, 1, 0, 2, 0, 1, 1, 1, 0, 0),
              Budget(2, 0, 0, 0, 1, 1, 0, 0, 3, 0)}
=============================================================================
