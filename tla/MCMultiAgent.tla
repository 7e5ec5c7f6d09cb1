---------------------------- MODULE MCMultiAgent ----------------------------
(***************************************************************************)
(* multi_agent.py against the fixture gateway of MCToolkit: the user agent *)
(* takes service "users", the blog agent service "blog".                  *)
(***************************************************************************)
EXTENDS MultiAgent, MCToolkit

MCUsers == [NoArgFilter EXCEPT !.service = "users"]
MCBlog == [NoArgFilter EXCEPT !.service = "blog"]
MCSelections == <<MCUsers, MCBlog>>
MCAgentFilters == {MCUsers, MCBlog}

=============================================================================
