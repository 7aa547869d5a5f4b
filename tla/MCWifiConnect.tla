--------------------------- MODULE MCWifiConnect ----------------------------
(* WifiConnect on a small instance, and what WifiScan computes on bounded inputs. *)
EXTENDS WifiConnect, WifiScan, TLC

Symmetry == Permutations(Names) \cup Permutations(Passwords)

Short(S, n) == UNION {[1..k -> S] : k \in 0..n}

\* A network's name with the separator or the escape in it comes out as it went in.
ASSUME TerseInvertsLine ==
    \A fs \in Short(Short({Esc, Sep, "x"}, 2), 3) : fs # <<>> => Terse(Line(fs)) = fs

\* Each network once, at its strongest and with the security of that row, and current if
\* any of its rows is, in whatever order the channels come.
Rows == [ssid : {"a", "b"}, signal : 0..1, secure : BOOLEAN, current : BOOLEAN]

ASSUME ScanKeepsTheStrongest ==
    \A rows \in Short(Rows, 3) :
        LET best == Scan(rows)
            Of(s) == {i \in DOMAIN rows : rows[i].ssid = s}
        IN  /\ \A e \in best :
                 /\ \E i \in Of(e.ssid) :
                      rows[i].signal = e.signal /\ rows[i].secure = e.secure
                 /\ \A i \in Of(e.ssid) : rows[i].signal <= e.signal
                 /\ e.current = \E i \in Of(e.ssid) : rows[i].current
            /\ \A s \in {"a", "b"} : Of(s) # {} <=> \E e \in best : e.ssid = s
            /\ \A d, e \in best : d.ssid = e.ssid => d = e

=============================================================================
