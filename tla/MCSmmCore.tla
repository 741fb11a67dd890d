----------------------------- MODULE MCSmmCore ------------------------------
(* A boot of SmmCore: one volume has an a priori file, another one the CPU    *)
(* driver; it arrives later, or is there and stands before or behind the      *)
(* first.  A third one has no device path.                                    *)
EXTENDS SmmCore

CONSTANTS io, pack, cpu, ahead, behind, user, root, bad, v1, v2, v3, msg, req, other

TheDrivers == {io, pack, cpu, ahead, behind, user, root, bad}
TheVolumes == {v1, v2, v3}

\* pack and io are in the a priori file, ahead goes BEFORE cpu, behind AFTER user.
TheFiles == [v \in TheVolumes |->
               CASE v = v1 -> <<root, user, pack, io>>
                 [] v = v2 -> <<cpu, behind, bad, ahead>>
                 [] OTHER  -> <<>>]
TheApriori == [v \in TheVolumes |-> IF v = v1 THEN <<pack, io>> ELSE <<>>]
TheNeeds == [d \in TheDrivers |->
               CASE d = user -> {"config"}
                 [] d = root -> {"cpuio"}
                 [] OTHER    -> {}]
TheBefore == [d \in TheDrivers |-> IF d = ahead THEN cpu ELSE NoDriver]
TheAfter == [d \in TheDrivers |-> IF d = behind THEN user ELSE NoDriver]

\* io makes the sections of pack and root readable; those of bad never are.
TheSealed == [d \in TheDrivers |->
                CASE d \in {pack, root} -> {"extract"} [] d = bad -> {"never"} [] OTHER -> {}]
TheInstalls == [d \in TheDrivers |->
                  CASE d = io -> {"cpuio", "extract"} [] d = cpu -> {"config"} [] OTHER -> {}]
TheRegisters == [d \in TheDrivers |->
                   CASE d = ahead -> msg [] d = user -> req [] d = behind -> req
                     [] d = root -> "root" [] OTHER -> NoType]
TheCalls == [d \in TheDrivers |->
               CASE d = cpu -> msg [] d = behind -> req [] OTHER -> NoType]
TheProtocols == {"cpuio", "config", "extract", "never"}

\* The second volume is found in the first pass, arrives later, or stands behind the
\* first one.
TheFirstVolumes == {<<v1, v3>>, <<v3, v1, v2>>, <<v2, v1, v3>>}
=============================================================================
