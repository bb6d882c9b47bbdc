-------------------------------- MODULE Tag --------------------------------
(***************************************************************************)
(* VLANTag: the switch, port and slice that a packet carries between the   *)
(* physical switches, packed into the 15 bits that the VLAN id and the     *)
(* priority bits of a VLAN header offer.  A field is its size (the number  *)
(* of its values) and its unit (the weight of its lowest bit).             *)
(***************************************************************************)
EXTENDS Integers

SwitchField == [size |-> 128, unit |-> 1]     \* num_switch_bits = 7
PortField   == [size |-> 16,  unit |-> 128]   \* num_port_bits   = 4
SliceField  == [size |-> 16,  unit |-> 2048]  \* num_slice_bits  = 4

max_tag     == 32767

Fields == {SwitchField, PortField, SliceField}
Tags   == 0..max_tag

\* get_value<bits,offset>
GetValue(tag, field) == (tag \div field.unit) % field.size

\* set_value<bits,offset>: what is above the size of the field is cut off
SetValue(tag, field, val) ==
  tag + ((val % field.size) - GetValue(tag, field)) * field.unit

max_switch_id == SwitchField.size - 1
max_port_id   == PortField.size - 1
max_slice_id  == SliceField.size - 1

\* A tag in which all three fields are set
FullTag(switch, port, slice) ==
  SetValue(SetValue(SetValue(0, SwitchField, switch), PortField, port),
           SliceField, slice)

\* The tag of a packet on a link that virtual switches share
SharedTag(slice) == FullTag(max_switch_id, max_port_id, slice)

\* The header field: 12 bits id, one that is always set, 3 bits priority
MakeRaw(tag) == (tag % 4096) + 4096 + (tag \div 4096) * 8192

ParseFromRaw(raw) == (raw % 4096) + (raw \div 8192) * 4096

\* add_to_match: a rule looks at the fields that were set in its tag.  The
\* priority bits cannot be masked, but all of them belong to the slice.
Matches(packet, tag, fields) ==
  \A f \in fields : GetValue(packet, f) = GetValue(tag, f)
=============================================================================
