------------------------------- MODULE Errors -------------------------------
(***************************************************************************)
(* The exception classes (errors.py): which class each derives from, and   *)
(* so which of them an except clause catches, and the Modbus exception     *)
(* code each of the protocol errors stands for.                            *)
(***************************************************************************)
EXTENDS Naturals

\* The class statements: what each class derives from.
Base ==
    [ModbusBaseError |-> "Exception",
     ModbusProtocolError |-> "ModbusBaseError",
     ModbusNetworkError |-> "ModbusBaseError",
     ModbusPacketError |-> "ModbusBaseError",
     ModbusModeError |-> "ModbusBaseError",
     ModbusTimeoutError |-> "ModbusNetworkError",
     ModbusPduParseError |-> "ModbusPacketError",
     ModbusIllegalFunctionError |-> "ModbusProtocolError",
     ModbusIllegalDataValueError |-> "ModbusProtocolError",
     ModbusSlaveDeviceFailureError |-> "ModbusProtocolError",
     IndexError |-> "Exception"]

\* isinstance(), for trees of this height.
IsA(class, ancestor) ==
    LET up(c) == IF c \in DOMAIN Base THEN Base[c] ELSE c
    IN ancestor \in {class, up(class), up(up(class)), up(up(up(class)))}

\* The codes of the exceptions the server answers with.
IllegalDataValue == 3
SlaveDeviceFailure == 4

=============================================================================
