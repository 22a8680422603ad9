----------------------------- MODULE DeviceNode -----------------------------
(***************************************************************************)
(* The device node that `litterbox device` makes (devices.rs): its type is *)
(* found by asking whether the bits of the device's mode contain those of  *)
(* a type.                                                                 *)
(***************************************************************************)
CONSTANTS BlockDevices, CharDevices, OtherFiles  \* paths below /dev

\* The bits of st_mode that are set.
S_IFCHR == {13}
S_IFBLK == {13, 14}
S_IFREG == {15}
Mode(path) ==
  IF path \in BlockDevices THEN S_IFBLK ELSE IF path \in CharDevices THEN S_IFCHR ELSE S_IFREG

\* Mutant of DevType: a block device has the bits of a character device, too.
DevTypeCharFirst(path) ==
  IF S_IFCHR \subseteq Mode(path) THEN "c" ELSE IF S_IFBLK \subseteq Mode(path) THEN "b" ELSE "unknown"

DevType(path) ==
  IF S_IFBLK \subseteq Mode(path) THEN "b" ELSE IF S_IFCHR \subseteq Mode(path) THEN "c" ELSE "unknown"

Paths == BlockDevices \cup CharDevices \cup OtherFiles
Nodes == Paths \X {"b", "c"}
=============================================================================
