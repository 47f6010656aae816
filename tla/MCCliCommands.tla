--------------------------- MODULE MCCliCommands ---------------------------
(***************************************************************************)
(* The command line handlers over small token sets.                       *)
(*                                                                         *)
(* Action selector: every argument vector up to a bound, per command, over *)
(* the keywords of that command and two words: "7", a number that is also *)
(* valid data, and "s", the name of the pipeline's selector and of one of  *)
(* its actions.  "7" names no selector and no action, and "s" is no        *)
(* number.                                                                 *)
(*                                                                         *)
(* Table, register and multicast group: every prefix of a usage form with  *)
(* up to two more tokens.  "s" names the table, the register, its         *)
(* DirectCounter and DirectMeter; "7" is a number, data, a counter value   *)
(* and a meter rate.  The key tokens cover each branch of the key parser:  *)
(* LPM with and without a prefix length or with a non-numeric one, a       *)
(* range, ternary with and without a mask or with bad data.               *)
(***************************************************************************)
EXTENDS CliCommands

Words == {"7", "s"}

MCAlphabet ==
    [c \in Commands |->
        Words \cup
        CASE c \in {"add-member", "update-member", "empty-group-action"}
                 -> {"action", "id", "name", "data"}
          [] c \in {"add-to-group", "delete-from-group"} -> {"to", "from"}
          [] c = "get" -> {"member", "group", "empty-group-action"}
          [] OTHER -> {"to"}]

\* the longest valid vector of each command plus one: two action parameters
\* for add-member and empty-group-action, one for update-member
MCMaxArgs ==
    [c \in Commands |->
        CASE c \in {"add-member", "empty-group-action", "update-member"} -> 7
          [] c \in {"add-to-group", "delete-from-group"} -> 5
          [] c = "get" -> 4
          [] OTHER -> 3]

MCKeyCut ==
    ("7/7"  :> [sep |-> "/",  head |-> "7", tail |-> "7"]) @@
    ("7/"   :> [sep |-> "/",  head |-> "7", tail |-> ""])  @@
    ("7/s"  :> [sep |-> "/",  head |-> "7", tail |-> "s"]) @@
    ("s/7"  :> [sep |-> "/",  head |-> "s", tail |-> "7"]) @@
    ("7..7" :> [sep |-> "..", head |-> "7", tail |-> "7"]) @@
    ("7^7"  :> [sep |-> "^",  head |-> "7", tail |-> "7"]) @@
    ("7^"   :> [sep |-> "^",  head |-> "7", tail |-> ""])  @@
    ("7^s"  :> [sep |-> "^",  head |-> "7", tail |-> "s"])

MCCliAlphabet ==
    [c \in CliCommands |->
        Words \cup
        CASE c \in {"table add", "table update"} ->
                 {"id", "ref", "key", "data", "priority", "none", "counter",
                  "group", "7/7"}
          [] c \in {"table default set", "table default get"} ->
                 {"id", "name", "ref", "data", "priority", "counter", "meter"}
          [] c \in {"table delete", "table get"} -> {"key", "none", "data"} \cup DOMAIN MCKeyCut
          [] c \in RegisterCommands -> {"index", "value"}
          [] c \in McastCommands -> {"id", "egress-port", "instance"}]

==============================================================================
