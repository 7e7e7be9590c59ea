----------------------------- MODULE MCConfigd -----------------------------
(* Small instances of Configd: one DHCP interface, a plain key, a client.  *)
EXTENDS Configd

CONSTANTS srv, plugin, c1, c2, dhcp, internal, vpn, en0, en1, r1, r2, d1, d2, p1, pat

IPv4Of(i, r) == [type |-> "ipv4", iface |-> i, router |-> r]
DNSOf(d)     == [type |-> "dns", server |-> d]
Link(b)      == [type |-> "link", active |-> b]

MCPatternKeys == [p \in Patterns |-> {PlainKey(p1)}]
GlobalPattern == [p \in Patterns |-> {GlobalIPv4}]
MCWatchable   == {PlainKey(p1)}
MCWrites      == {<<PlainKey(p1), Opaque>>}
MCRemovals    == {PlainKey(p1)}
MCNoPreferences == {[services |-> {}, order |-> None]}
MCPreferences == {[services |-> {dhcp}, order |-> None]}
MCInternalService == [i \in Interfaces |-> internal]

\* One lease, published with its DNS servers, that also drops the plain key.
Lease == [set    |-> <<<<ServiceIPv4(dhcp), IPv4Of(en0, r1)>>, <<ServiceDNS(dhcp), DNSOf(d1)>>>>,
          remove |-> <<PlainKey(p1)>>,
          notify |-> <<GlobalIPv4>>]
MCBatches == {Lease}

\* Service updates as the IPConfiguration plug-in makes them: a lease on one of
\* two routers with or without DNS servers, DNS servers alone, the plug-in's own
\* dictionary, an incomplete lease, a non-dictionary, the end of a lease, and
\* two services in one update, enumerated in either order.
Update(set, remove) == [set |-> set, remove |-> remove, notify |-> << >>]
ServiceEntry(s, i, r) == <<ServiceIPv4(s), IPv4Of(i, r)>>
PluginEntry(s, v, d) == <<PluginService(s), [type |-> "plugin", ipv4 |-> v, dns |-> d]>>
Lost == <<ServiceIPv4(dhcp)>>

ServiceBatches ==
    {Update(<<ServiceEntry(dhcp, i, r)>>, << >>) :
            i \in {en1, None}, r \in {r2, None}}
        \cup {Update(<<ServiceEntry(dhcp, en0, r1), <<ServiceDNS(dhcp), DNSOf(d1)>>>>, << >>),
              Update(<<ServiceEntry(dhcp, en0, r1), PluginEntry(vpn, IPv4Of(en1, r2), DNSOf(d1))>>, << >>),
              Update(<<PluginEntry(vpn, IPv4Of(en0, r2), Absent), ServiceEntry(dhcp, en0, r1)>>, << >>),
              Update(<<PluginEntry(vpn, IPv4Of(en0, r1), Absent)>>, Lost),
              Update(<<PluginEntry(vpn, Absent, Absent)>>, << >>),
              Update(<<<<ServiceDNS(dhcp), DNSOf(d1)>>>>, Lost),
              Update(<<<<ServiceIPv4(dhcp), Opaque>>>>, << >>)}

\* What the kernel event monitor sends: changes of a link.
LinkBatches == {Update(<<<<InterfaceLink(i), Link(b)>>>>, << >>) : i \in Interfaces, b \in BOOLEAN}

Nothing == {}
=============================================================================
