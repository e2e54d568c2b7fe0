--------------------------- MODULE MCCloudSchedule ---------------------------
(* Instances of CloudSchedule for TLC.                                       *)
EXTENDS CloudSchedule

G(m, from, to, fd, mg) == [mode |-> m, from |-> from, to |-> to, fdSoc |-> fd, minSocOnGrid |-> mg]

MCWindows == {<<0, 3>>, <<1, 2>>}
MCSlots == {1}
MCSlots2 == {1, 2}
(* A placeholder, a group in need of repair, and one of an unmanaged mode.   *)
MCAppGroups == {G("Invalid", 0, 0, 0, 0), G("ForceCharge", 2, 3, 0, 2), G("Backup", 2, 3, 1, 1)}

(* For two operations at once: a window, and groups in its later half, of    *)
(* which a discharge is merged clear when it ends early.                     *)
MCWindow == {<<0, 2>>}
MCLateGroups == {G("ForceCharge", 1, 2, 0, 2), G("Backup", 1, 2, 1, 1)}
===============================================================================
