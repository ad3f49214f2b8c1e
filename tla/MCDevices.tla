----------------------------- MODULE MCDevices ------------------------------
\* Small instances of the parts of Devices.
EXTENDS Devices

C(op, prdt, len) == [op |-> op, prdt |-> prdt, len |-> len, bad |-> FALSE]
B(op) == [op |-> op, prdt |-> <<1>>, len |-> 1, bad |-> TRUE]
M(atapi, msien, cmds) == [atapi |-> atapi, msien |-> msien, cmds |-> cmds]

\* Commands that interact: reads and writes cut into parts, trims with empty
\* ranges, answers at once, software reset, and the optical drive.
MCMenus == {
  M(FALSE, TRUE, {C("rw", <<1, 1, 2>>, 4), C("ncq", <<1, 2, 1>>, 4)}),
  M(FALSE, TRUE, {C("trim", <<0, 1, 0>>, 3), C("ncqtrim", <<1, 1>>, 2), C("ncqtrim", <<0>>, 0)}),
  M(FALSE, FALSE, {C("flush", <<>>, 1), C("identify", <<1>>, 1), C("log", <<>>, 1), C("features", <<>>, 0)}),
  M(FALSE, FALSE, {C("rw", <<3>>, 2), C("ready", <<>>, 0), C("srst", <<>>, 0), C("srstoff", <<>>, 0)}),
  M(TRUE, FALSE, {C("aread", <<1, 1, 2>>, 4), B("inquiry"), C("sense", <<1>>, 1)}),
  M(TRUE, TRUE, {C("aidentify", <<1>>, 1), C("capacity", <<1>>, 1), C("toc", <<1>>, 1), B("mode")})}

MCBase == [io |-> 32, mem32 |-> 40, mem64 |-> 256]
MCLimit == [io |-> 128, mem32 |-> 512, mem64 |-> 1024]
MCSlop == [io |-> 32, mem32 |-> 64, mem64 |-> 64]

\* Two functions share a PIRQ pin, two an IOAPIC pin.
MCDevs == {1, 2, 3}
MCPirq == <<1, 1, 2>>
MCPin == <<16, 17, 17>>

MCOid == <<"hw.n", "cpu">>
=============================================================================
