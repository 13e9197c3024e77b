-------------------------- MODULE MCPullBranches --------------------------
(* One pull request, its branch and the default branch.                    *)
EXTENDS PullBranches

=============================================================================
