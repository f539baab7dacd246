------------------------------ MODULE MCRelease ------------------------------
(* One update, with a migration of two columns and one of a table. *)
EXTENDS Release

Migrations == <<<<"again", "table">>, <<"column", "column">>>>
EarlyRows == [user_api_keys |-> Value("secret", 0), suite_tokens |-> Value("secret", 1)]
NoDocs == <<Paths, Paths \ {"docs"}>>

\* Half hours: a day of three hours, in which a window is of an hour and a half, past
\* midnight, or is one instant, and the loop sleeps for an hour.
Nightly == {<<5, 2>>, <<1, 1>>}

=============================================================================
