---------------------------- MODULE TaskMessages ----------------------------
(***************************************************************************)
(* How a task gets from the XML task definition into a worker: the reader  *)
(* of the definition, the task factory, and the text form of the messages  *)
(* in msg/ between master and controller.                                  *)
(*                                                                         *)
(* A text is the sequence of the pieces that the separator '|' makes of    *)
(* it: split() is the identity, and text + '|' + text is concatenation.    *)
(* The empty text has one empty piece.                                     *)
(***************************************************************************)
EXTENDS Naturals, Sequences
LOCAL INSTANCE SequencesExt

CONSTANTS
    InitArgs,       \* InitArgs[c]: arguments of __init__ of task class c
    TaskModules     \* module names with "task." in them

Empty  == <<"">>
NoBody == Empty                     \* None and '' are the same to the code
Raised == [raised |-> TRUE]         \* an exception

MaxArgs == 15                       \* _create_task() spells out as many

(* Module and class of a task are plain names; its tid and args are texts. *)
Task(module, class, tid, args) ==
    [module |-> module, class |-> class, tid |-> tid, args |-> args]

(***************************************************************************)
(* Messages.                                                               *)
(***************************************************************************)
BaseMessage(header, body) == [header |-> header, body |-> body]

Text(msg) == msg.header \o IF msg.body = NoBody THEN << >> ELSE msg.body

(* TaskAssign, made from a task and from a text.                           *)
AssignTask(task) ==
    IF task.tid = Empty THEN Raised
    ELSE BaseMessage(<<"TASK_ASS", task.module, task.class>> \o task.tid,
                     IF task.args = << >> THEN NoBody ELSE FlattenSeq(task.args))

AssignText(text) ==
    IF Len(text) < 4 THEN Raised
    ELSE BaseMessage(SubSeq(text, 1, 4),
                     IF Len(text) = 4 THEN NoBody ELSE SubSeq(text, 5, Len(text)))

(* The other messages: a type, and as many fields that must not be empty.  *)
Fields == [TASK_REQ |-> 1, TASK_FIN |-> 2, ACK |-> 0, WAIT_CMD |-> 1,
           HEARTBEAT |-> 1, EXIT_CMD |-> 0]

PlainMessage(type, fields) ==
    IF Empty \in {fields[k] : k \in DOMAIN fields} THEN Raised
    ELSE BaseMessage(<<type>>, IF fields = << >> THEN NoBody ELSE FlattenSeq(fields))

Create(text) ==
    LET type == text[1] IN
    CASE text = Empty -> Raised
      [] type \in DOMAIN Fields /\ Len(text) = Fields[type] + 1
            -> PlainMessage(type, [k \in 1 .. Fields[type] |-> <<text[k + 1]>>])
      [] type = "TASK_ASS" -> AssignText(text)
      [] OTHER -> Raised

(***************************************************************************)
(* The task factory: __init__ is called with the items.                    *)
(***************************************************************************)
NewTask(module, class, tid, items) ==
    IF Len(items) > MaxArgs \/ Len(items) # Len(InitArgs[class]) THEN Raised
    ELSE Task(module, class, tid, items)

FromMessage(msg) ==
    IF Len(msg.header) # 4 THEN Raised
    ELSE LET body == IF msg.body = NoBody THEN << >> ELSE msg.body
         IN  NewTask(msg.header[2], msg.header[3], <<msg.header[4]>>,
                     [k \in DOMAIN body |-> <<body[k]>>])

(***************************************************************************)
(* The XML reader.  A child of the root has a tag, a name, a module and a  *)
(* class name ("" if there is none) and property items <<tag, text>>.  The *)
(* properties of the child of the name wanted are put into an OrderedDict: *)
(* a sequence of <<tag, text>> in which a later text replaces the first.   *)
(***************************************************************************)
Tags(items) == [k \in DOMAIN items |-> items[k][1]]

Put(dict, item) ==
    IF \E k \in DOMAIN dict : dict[k][1] = item[1]
    THEN [k \in DOMAIN dict |-> IF dict[k][1] = item[1] THEN item ELSE dict[k]]
    ELSE Append(dict, item)

WellFormed(child) ==
    child.class # "" /\ child.module \in TaskModules

ReadTaskDefinition(children, name) ==
    LET named == {k \in DOMAIN children : children[k].name = name}
        k     == CHOOSE j \in named : TRUE
    IN  IF \/ \E j \in DOMAIN children : children[j].tag # "task"
           \/ ~\E j \in DOMAIN children : named = {j} /\ WellFormed(children[j])
        THEN Raised
        ELSE [module |-> children[k].module, class |-> children[k].class,
              properties |-> FoldLeft(Put, << >>, children[k].items)]

FromXmlInfo(info) ==
    IF info = Raised \/ Tags(info.properties) # InitArgs[info.class] THEN Raised
    ELSE NewTask(info.module, info.class, Empty,
                 [k \in DOMAIN info.properties |-> info.properties[k][2]])

-----------------------------------------------------------------------------
Transmitted(task) ==
    LET msg == AssignTask(task)
    IN  IF msg = Raised THEN Raised
        ELSE LET got == Create(Text(msg))
             IN  IF got = Raised THEN Raised ELSE FromMessage(got)

(* A controller never makes another task of a message than the one that    *)
(* was sent, whatever the arguments are: a separator in an argument, or a  *)
(* tail that is lost with an empty body, makes their number wrong.  It     *)
(* makes that task unless an argument has a separator, the only argument   *)
(* is empty, or there are too many.                                        *)
ReadAsWritten(task) ==
    /\ Transmitted(task) \in {task, Raised}
    /\ Transmitted(task) = task <=>
          /\ Len(task.args) <= MaxArgs /\ task.args # <<Empty>>
          /\ \A k \in DOMAIN task.args : Len(task.args[k]) = 1

(* The other messages get across with fields that are not empty and have   *)
(* no separator, and no other way.                                         *)
MessageAsWritten(type, fields) ==
    LET msg == PlainMessage(type, fields)
    IN  msg # Raised =>
           Create(Text(msg)) = IF \A k \in DOMAIN fields : Len(fields[k]) = 1
                                   THEN msg ELSE Raised

(* A definition gives every argument of the class the text of the property *)
(* of its name, and a task that a controller can be given too.             *)
PropertiesAreArguments(children, name) ==
    LET info == ReadTaskDefinition(children, name)
        task == FromXmlInfo(info)
    IN  task # Raised =>
           \A k \in DOMAIN task.args : \E j \in DOMAIN children :
              /\ children[j].name = name /\ children[j].class = task.class
              /\ <<InitArgs[task.class][k], task.args[k]>>
                    \in {children[j].items[i] : i \in DOMAIN children[j].items}
=============================================================================
