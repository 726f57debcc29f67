-------------------------------- MODULE MCCGI --------------------------------
(***************************************************************************)
(* Instances of CGI: every kind of script, after any other.     *)
(***************************************************************************)
EXTENDS CGI

Steps(s) == [known |-> TRUE, exec |-> TRUE, steps |-> s]

Echo == Steps(<<"drain", "field", "blank", "text">>)
\* A field in two writes; bodies that look like a field.
Slow == Steps(<<"drain", "name", "value", "blank", "name">>)
Odd == Steps(<<"drain", "blank", "name">>)
\* Writes more than a pipe holds before it reads.
Eager == Steps(<<"field", "blank", "text", "text", "drain">>)
\* Leaves its input alone.
Deaf == Steps(<<"field", "blank", "text">>)
Hasty == Steps(<<"read", "text", "name">>)
Binary == Steps(<<"nul", "blank", "text">>)
Quiet == Steps(<<"drain">>)
Missing == [known |-> TRUE, exec |-> FALSE, steps |-> <<"drain", "text">>]
Unknown == [known |-> FALSE, exec |-> TRUE, steps |-> <<"text">>]

EachScript ==
  {Echo, Slow, Odd, Eager, Deaf, Hasty, Binary, Quiet, Missing, Unknown}
=============================================================================
