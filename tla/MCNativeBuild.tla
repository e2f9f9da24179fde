---------------------------- MODULE MCNativeBuild ----------------------------
(* Instances of NativeBuild for TLC.                                         *)
EXTENDS NativeBuild

On(os, name) == [os |-> os, name |-> name]

(* Two architectures behind one task, and scripts that share directories.    *)
HostTargets ==
  {On("darwin", "aarch64"), On("darwin", "x86_64"), On("android", "x86"),
   On("ios", "SimulatorArm64")}

IosTargets == {On("darwin", "aarch64"), On("ios", "X64"), On("ios", "Arm64")}

Aarch64 == On("darwin", "aarch64")
=============================================================================
