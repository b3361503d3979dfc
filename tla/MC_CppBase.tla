------------------------------- MODULE MC_CppBase -------------------------------
(* The classes of cpp_base on small instances:                             *)
(*   "app"     an application with two commands (one of them registered    *)
(*             twice), one telemetry message and one bare subscription     *)
(*   "process" two children, with the identities of a user, of root, and *)
(*             of a user in a set-user-id or set-group-id program          *)
(*   "filter"  a command and a telemetry message that share an apid, and   *)
(*             another apid that only files name; files that are good,     *)
(*             empty, do not parse, or stop at their first item            *)
(*   "states"  five state objects, two of them with one name, one with no  *)
(*             name, and one named "ERROR"                                 *)
(*   "frame"   the three applications that wake by themselves              *)
EXTENDS CppBase, TLC

MCRegistrations ==
  << [kind |-> "cmd", id |-> "CMD", fcn |-> 1], [kind |-> "tlm", id |-> "TLM", fcn |-> 0],
     [kind |-> "cmd", id |-> "CMD", fcn |-> 2], [kind |-> "cmd", id |-> "CMD", fcn |-> 1],
     [kind |-> "raw", id |-> "RAW", fcn |-> 0] >>

(* The last one is a command code nobody registered.                       *)
MCMessage ==
  { [id |-> "CMD", fcn |-> 1], [id |-> "CMD", fcn |-> 2], [id |-> "TLM", fcn |-> 0],
    [id |-> "RAW", fcn |-> 0], [id |-> "CMD", fcn |-> 3] }

CONSTANTS user, root, s1, s2, s3, s4, twin

MCId == {user, root}
Credentials(ru, eu, rg, eg) ==
  [ruid |-> ru, euid |-> eu, suid |-> eu, rgid |-> rg, egid |-> eg, sgid |-> eg]
MCOrdinary == Credentials(user, user, user, user)
MCIdentity == {MCOrdinary, Credentials(user, root, user, user),
               Credentials(root, root, root, root), Credentials(user, user, user, root),
               Credentials(user, root, user, root)}

Item(id, n, stored) ==
  [id |-> id, decimation |-> n, route |-> 7, depth |-> 0, ack |-> FALSE, stored |-> stored]
MCFile == { [parses |-> TRUE,  items |-> <<Item(6160, 3, 5), Item(2065, 2, 5)>>],
            [parses |-> TRUE,  items |-> <<>>],
            [parses |-> TRUE,  items |-> <<Item(6160, 2, 0), Item(2065, 2, 5)>>],
            [parses |-> TRUE,  items |-> <<Item(2065, 3, 1), Item(6160, 2, 5)>>],
            [parses |-> FALSE, items |-> <<>>] }

MCIdOf(s) == CASE s \in {s1, twin} -> "one" [] s = s2 -> "two" [] s = s3 -> "ERROR" [] s = s4 -> ""
=============================================================================
