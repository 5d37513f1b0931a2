CONSTANTS
  Types = {"bool", "int32", "string", "message"}
  RepeatedTypes = {"bool"}
  FieldModifiers = {{"singular"}, {"required"}, {"flip_utf8"}}
  MessageModifiers = {{"extendable"}}
  Skips = {0, 2}
  MaxFields = 3
  MaxOneofs = 2
  MaxFieldNumber = 4
  MaxRequired = 2
  I16Max = 65
  U16Max = 63
  U8Size = 3
SPECIFICATION Spec
INVARIANTS SlotsApart SlotsInside LookupsAgree SubsFollowFields
