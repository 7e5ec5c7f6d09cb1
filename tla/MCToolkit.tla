----------------------------- MODULE MCToolkit -----------------------------
(***************************************************************************)
(* A small instance of Toolkit for TLC: the two services of the package's  *)
(* tests and examples, a gateway that goes through three catalog versions *)
(* (two tools, then none, then a changed set), and the filter arguments    *)
(* the examples use plus the edge cases Python truthiness makes special.   *)
(***************************************************************************)
EXTENDS Toolkit, TLC

Get    == "users.Users.Get"
Create == "users.Users.Create"
Posts  == "blog.Posts.List"

MCNames == {Get, Create, Posts}
MCServices == {"users", "blog"}

\* v1: the test fixture's two tools; v2: fetched but empty; v3: a redeploy.
MCCatalog ==
    << << [name |-> Get, service |-> "users"], [name |-> Create, service |-> "users"] >>,
       << >>,
       << [name |-> Posts, service |-> "blog"], [name |-> Get, service |-> "users"] >> >>

MCFilters ==
    { \* get_tools(service_filter="users", exclude=["users.Users.Create"])
      [NoArgFilter EXCEPT !.service = "users", !.exclude = {Create}],
      \* get_tools(name_pattern="users", include=["users.Users.Get",
      \*           "blog.Posts.List"], exclude=[]): include narrows a non-empty
      \* list, and an empty exclude is skipped
      [NoArgFilter EXCEPT !.pattern = {Get, Create}, !.include = {Get, Posts},
                          !.exclude = {}],
      \* get_tools(include=["blog.Posts.List", "users.Users.Create"])
      [NoArgFilter EXCEPT !.include = {Posts, Create}] }

\* The boundary where code and spec part: include=[] after a pattern that
\* keeps the users tools.
MCEmptyIncludeFilters ==
    { [NoArgFilter EXCEPT !.pattern = {Get, Create}, !.include = {}] }

\* The liveness run needs no data variety: one get_tools argument set and a
\* gateway that changes once.
MCLiveCatalog == SubSeq(MCCatalog, 1, 2)

MCLiveFilters == {[NoArgFilter EXCEPT !.service = "users", !.exclude = {Create}]}

\* Caller threads are interchangeable.
MCSymmetry == Permutations(Threads)

=============================================================================
