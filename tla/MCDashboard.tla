---------------------------- MODULE MCDashboard ----------------------------
EXTENDS Dashboard, TLC

CONSTANTS cell1, cell2

MCPicks == {{cell1, cell2}, {cell1}, {cell2}}
MCCancellable == {{cell1, cell2}}

\* Requests and cells are interchangeable in every action and property.
MCSymmetry == Permutations(Calls) \cup Permutations({cell1, cell2})
=============================================================================
