----------------------------- MODULE MCIpaStore -----------------------------
(* Small instances of IpaStore. *)
EXTENDS IpaStore, TLC

CONSTANTS d1, d2, u1, u2, u3, k1, team

TwoDevices == {d1, d2}
ThreeUploads == {u1, u2, u3}
OneRefresh == {k1}
OneTeam == {team}

(* Three uploads for one device, or two for two devices beside a refresh.  *)
SmallWorlds == {{d} \cup ThreeUploads : d \in TwoDevices}
                 \cup {TwoDevices \cup {u, v, k1} : u, v \in ThreeUploads}
Symmetric == Permutations(TwoDevices) \cup Permutations(ThreeUploads)
=============================================================================
