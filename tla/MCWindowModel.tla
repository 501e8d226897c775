--------------------------- MODULE MCWindowModel ---------------------------
(***************************************************************************)
(* Instances of WindowModel for TLC.                                       *)
(***************************************************************************)
EXTENDS WindowModel, TLC

\* Every window belongs to a client of its own.
MCClientOf == [x \in Windows |-> x]

\* Windows that come with no properties, and with requests of every kind.
MCLooks == {[atoms |-> {}, hints |-> {}],
            [atoms |-> {"FULLSCREEN", "HORZ", "ATTENTION", "MODAL"}, hints |-> {"iconic"}]}

MCMessages == {{"FULLSCREEN"}, {"HORZ", "VERT"}, {"FULLSCREEN", "ATTENTION"}, {"ATTENTION", "VERT"}}

MCAnswers == [fullscreen |-> SUBSET {"FULLSCREEN"},
              maximized |-> {{}, {"HORZ"}, {"VERT"}},
              interaction |-> {{}, {"ACTIVE", "ATTENTION"}, {"MINIMIZED", "ATTENTION"}}]

Budget(windows, links, requests, activations, edits, answers, inputs) ==
    [windows |-> windows, links |-> links, requests |-> requests, activations |-> activations,
     edits |-> edits, answers |-> answers, inputs |-> inputs]

\* Reused XIDs and renderers; late answers to reused XIDs; several answers and a second observe;
\* requests and answers across renderers; activation.
MCBudgets == {Budget(3, 2, 0, 0, 1, 0, 0), Budget(2, 1, 1, 0, 0, 1, 0), Budget(1, 1, 1, 0, 0, 2, 0),
              Budget(1, 2, 1, 0, 1, 1, 0), Budget(2, 1, 0, 2, 0, 0, 2)}

Symmetry == Permutations(Windows)
=============================================================================
